---------------------------- MODULE Spec2Model ----------------------------
(***************************************************************************)
(* Leaderboard ingestion service (HyroeVRC/vrchat-leaderboard-api).        *)
(*                                                                         *)
(* The repository holds several variants of the same server.  Each variant *)
(* is one program; each specification below runs one of them:              *)
(*   strict variant   src/server.js 174-519   (reset -> symbols -> commit) *)
(*   beacon variant   src/server.js 521-899   (handshake freshness)        *)
(*   part_002         src/unnamed/part_002    (overwrite commits)          *)
(*   part_001         src/unnamed/part_001    (world+name key)             *)
(*                                                                         *)
(* Strings are sequences of one-character strings, so that slicing, the    *)
(* alphabet lookup and concatenation are computed as the code computes     *)
(* them.  Scores are natural numbers written in base 64, most significant  *)
(* digit first and without leading zeros (the empty sequence is 0): the    *)
(* caps (1e12, 1e13) and the values a 32-symbol buffer decodes to do not   *)
(* fit the model checker's machine integers.  A handler that awaits the    *)
(* store is one action per segment between two awaits: the query the await *)
(* waits for is executed by the step that resumes the handler.             *)
(***************************************************************************)
EXTENDS Integers, Sequences, FiniteSets, TLC

VARIABLES
  SESSIONS,   \* strict, part_002, part_001: Map ip -> session object
  SESS,       \* beacon: Map ip -> session object
  scores,     \* the table scores: user_id_hash -> row
  now,        \* Date.now() / NOW(), in ms since the process started
  lastSweep,  \* the time the setInterval sweep last ran
  pending,    \* ip -> the commit request of that client that awaits the store
  reply,      \* what the step just taken answered: [ip, op, ans]
  appended,   \* history: ip -> per buffer, the symbols accepted since it was last emptied
  tHist,      \* history: user_id_hash -> values of the /tcommit calls answered ok: [all, last]
  gHist,      \* history: user_id_hash -> values of the beans commits answered ok: [all, last]
  nHist,      \* history: user_id_hash -> names of the /ncommit calls answered ok: [all, last]
  hello,      \* history: ip -> when that client last called /commit (beacon), 0: never
  variant,    \* which program of the repository is running
  script,     \* scenario runs: the calls the client will make, in order
  pc,         \* scenario runs: index of the next call of script
  failed,     \* history: ip -> the last request of that client answered db
  board       \* the rows sent by the last leaderboard request answered

vars == <<SESSIONS, SESS, scores, now, lastSweep, pending, reply, appended,
          tHist, gHist, nHist, hello, variant, script, pc, failed, board>>

-----------------------------------------------------------------------------
(* Bounds of the model *)

MaxOver == 2        \* appends a client sends past a full buffer
MaxMarks == 1       \* symbols other than ALPHABET[0] in one buffer (cap runs)
TickMs == 10000     \* granularity of the clock in runs of the strict variant
MaxTicks == 15      \* clock ticks of a run of the strict variant
BeaconTickMs == 100000 \* granularity of the clock in runs of the beacon variant
MaxBeaconTicks == 8 \* clock ticks of a run of the beacon variant

-----------------------------------------------------------------------------
(* Generic helpers *)

Put(m, k, v) == [x \in (DOMAIN m) \cup {k} |-> IF x = k THEN v ELSE m[x]]

Drop(m, ks) == [x \in (DOMAIN m) \ ks |-> m[x]]

EmptyMap == [x \in {} |-> {}]

Take(s, n) == SubSeq(s, 1, IF Len(s) < n THEN Len(s) ELSE n)

IsPrefix(p, s) == Len(p) <= Len(s) /\ SubSeq(s, 1, Len(p)) = p

Last(s) == s[Len(s)]

-----------------------------------------------------------------------------
(* Natural numbers in base 64 *)

\* the numeral without its leading digits 0
RECURSIVE Canon(_)
Canon(d) == IF d = <<>> THEN <<>>
            ELSE IF d[1] = 0 THEN Canon(Tail(d)) ELSE d

RECURSIVE Digits(_)
Digits(n) == IF n = 0 THEN <<>> ELSE Append(Digits(n \div 64), n % 64)

\* the number n (a machine integer) as a base-64 numeral
Num(n) == Digits(n)

RECURSIVE LexLess(_, _)
LexLess(a, b) == IF a = <<>> THEN FALSE
                 ELSE IF a[1] # b[1] THEN a[1] < b[1]
                 ELSE LexLess(Tail(a), Tail(b))

\* a < b, for canonical numerals
NumLess(a, b) == \/ Len(a) < Len(b)
                 \/ Len(a) = Len(b) /\ LexLess(a, b)

NumLeq(a, b) == a = b \/ NumLess(a, b)

\* SQL GREATEST(a, b)
GREATEST(a, b) == IF NumLess(a, b) THEN b ELSE a

\* v * 64 + k
MulAdd64(v, k) == Canon(Append(v, k))

RECURSIVE MulSmallRev(_, _, _)
\* digits least significant first, times m, plus carry
MulSmallRev(r, m, carry) ==
  IF r = <<>> THEN (IF carry = 0 THEN <<>> ELSE MulSmallRev(<<0>>, m, carry))
  ELSE LET x == r[1] * m + carry
       IN <<x % 64>> \o MulSmallRev(Tail(r), m, x \div 64)

RECURSIVE Rev(_)
Rev(s) == IF s = <<>> THEN <<>> ELSE Append(Rev(Tail(s)), s[1])

\* a * m, for a machine integer 0 < m <= 10^6
NumMul(a, m) == Canon(Rev(MulSmallRev(Rev(a), m, 0)))

RECURSIVE NumMaxOf(_)
\* the largest numeral of a sequence of numerals (0 for none)
NumMaxOf(s) == IF s = <<>> THEN <<>> ELSE GREATEST(s[1], NumMaxOf(Tail(s)))

-----------------------------------------------------------------------------
(* Strict variant: src/server.js 174-519 *)

ALPHABET ==
  << "A","B","C","D","E","F","G","H","I","J","K","L","M",
     "N","O","P","Q","R","S","T","U","V","W","X","Y","Z",
     "a","b","c","d","e","f","g","h","i","j","k","l","m",
     "n","o","p","q","r","s","t","u","v","w","x","y","z",
     "0","1","2","3","4","5","6","7","8","9","-","_" >>

MAX_MS == NumMul(Num(1000000), 1000000)

MAX_BEANS == NumMul(Num(1000000), 1000000)

SESSION_TTL_MS == 120000

SWEEP_MS == 30000

FP_CAP == 8

NAME_CAP == 24

TIME_CAP == 32

BEANS_CAP == 32

WORLD_CAP == 64

\* the value a failed decode returns (null): no numeral holds a negative digit
Null == <<-1>>

\* SQL NULL in a text column: no string of the model holds this element
NULL == <<"NULL">>

alphaIndex(c) == IF \E i \in 1..Len(ALPHABET) : ALPHABET[i] = c
                 THEN (CHOOSE i \in 1..Len(ALPHABET) : ALPHABET[i] = c) - 1
                 ELSE -1

RECURSIVE DecodeFrom(_, _)
\* the loop of decodeBase64AlphabetToNumber over the rest of sym, from value v
DecodeFrom(sym, v) ==
  IF sym = <<>> \/ v = Null THEN v
  ELSE DecodeFrom(Tail(sym), IF alphaIndex(sym[1]) < 0 THEN Null
                             ELSE MulAdd64(v, alphaIndex(sym[1])))

\* faulty variant: the final test against the cap is missing
decodeUncapped(sym, cap) ==
  IF sym = <<>> THEN <<>> ELSE DecodeFrom(sym, <<>>)

\* faulty variant: the first symbol is taken as the least significant
decodeReversed(sym, cap) ==
  LET v == DecodeFrom(Rev(sym), <<>>)
  IN IF v = Null THEN Null
     ELSE IF NumLess(cap, v) THEN Null
     ELSE v

decodeBase64AlphabetToNumber(sym, cap) ==
  IF sym = <<>> THEN <<>>
  ELSE LET v == DecodeFrom(sym, <<>>)
       IN IF v = Null THEN Null
          ELSE IF NumLess(cap, v) THEN Null
          ELSE v

FpPrefix == <<"f","p","_">>

PlayerPrefix == <<"P","l","a","y","e","r","-">>

\* "fp_" + s.fpBuf.slice(0, 8)
UserIdHash(fpBuf) == FpPrefix \o Take(fpBuf, 8)

\* "Player-" + user_id_hash.slice(3)
DefaultName(uid) == PlayerPrefix \o SubSeq(uid, 4, Len(uid))

DefaultWorld == <<"d","e","f","a","u","l","t">>

\* (req.query.world || "default").toString().slice(0,64)
WorldOf(q) == Take(IF q = <<>> THEN DefaultWorld ELSE q, WORLD_CAP)

NewSession(t) ==
  [fpBuf |-> <<>>,
   nameActive |-> FALSE, nameBuf |-> <<>>,
   timeActive |-> FALSE, timeBuf |-> <<>>,
   beansActive |-> FALSE, beansBuf |-> <<>>,
   lastSeen |-> t]

\* the session object ensureSess returns (it is also stored under ip)
ensureSess(ip) ==
  LET s == IF ip \in DOMAIN SESSIONS THEN SESSIONS[ip] ELSE NewSession(now)
  IN [s EXCEPT !.lastSeen = now]

NoAppended == [fp |-> <<>>, name |-> <<>>, time |-> <<>>, beans |-> <<>>]

\* history kept with ensureSess: a session that is created starts with empty buffers
AppendedOf(ip) == IF ip \in DOMAIN SESSIONS THEN appended[ip] ELSE NoAppended

R(ip, op, ans) == [ip |-> ip, op |-> op, ans |-> ans]

NoReply == R("-", "-", "-")

\* the HTTP status sent with each answer token of the strict variant
StatusOf(ans) == CASE ans = "ok" -> 200 [] ans = "bad" -> 400 [] ans = "noid" -> 400
                   [] ans = "noreset" -> 409 [] ans = "db" -> 500

\* what a request in flight has captured in its closure
Req(op, uid, name, val, world, sess) ==
  [op |-> op, stage |-> 1, uid |-> uid, name |-> name, val |-> val,
   world |-> world, m_ms |-> <<>>, m_beans |-> <<>>,
   detached |-> FALSE,   \* the session object s is no longer the one in the Map
   at |-> now,           \* history: when the request arrived
   sess |-> sess,        \* history: the session as the request found it
   db |-> scores]        \* history: the table as the request found it

Row(name, world, ms, beans) ==
  [display_name |-> name, world_id |-> world, total_ms |-> ms,
   beans |-> beans, updated_at |-> now]

IPs == {"ip1", "ip2"}

\* history: one more successful commit of value v under key uid
Logged(h, uid, v) ==
  Put(h, uid, [all |-> (IF uid \in DOMAIN h THEN h[uid].all ELSE {}) \cup {v},
               last |-> v])

\* faulty variant: the cap is tested one symbol late
AppendCapped_Late(buf, cap, k) ==
  IF Len(buf) <= cap THEN Append(buf, ALPHABET[k + 1]) ELSE buf

\* a buffer append: "if (buf.length < cap) buf += ALPHABET[k]"
AppendCapped(buf, cap, k) ==
  IF Len(buf) < cap THEN Append(buf, ALPHABET[k + 1]) ELSE buf

BufOf(f) == CASE f = "name" -> "nameBuf" [] f = "time" -> "timeBuf"
              [] f = "beans" -> "beansBuf"

ActiveOf(f) == CASE f = "name" -> "nameActive" [] f = "time" -> "timeActive"
                 [] f = "beans" -> "beansActive"

CapOf(f) == CASE f = "name" -> NAME_CAP [] f = "time" -> TIME_CAP
              [] f = "beans" -> BEANS_CAP

ResetOp(f) == CASE f = "name" -> "nreset" [] f = "time" -> "treset"
                [] f = "beans" -> "greset"

SymOp(f) == CASE f = "name" -> "n" [] f = "time" -> "t" [] f = "beans" -> "g"

CommitOp(f) == CASE f = "name" -> "ncommit" [] f = "time" -> "tcommit"
                 [] f = "beans" -> "gcommit"

\* what no handler of the strict variant touches
StrictFrame == UNCHANGED <<SESS, hello, now, lastSweep, variant, failed, board>>

\* faulty variant: /start empties the identity buffer and keeps the session
Start_KeepsSession(c) ==
  /\ SESSIONS' = [x \in DOMAIN SESSIONS |->
                    IF x = c THEN [SESSIONS[x] EXCEPT !.fpBuf = <<>>] ELSE SESSIONS[x]]
  /\ appended' = [appended EXCEPT ![c] = NoAppended]
  /\ reply' = R(c, "start", "ok")
  /\ UNCHANGED <<scores, pending, tHist, gHist, nHist>>
  /\ StrictFrame

\* GET /start
Start(c) ==
  /\ SESSIONS' = Drop(SESSIONS, {c})
  /\ appended' = [appended EXCEPT ![c] = NoAppended]
  /\ pending' = [x \in DOMAIN pending |->
                   IF x = c THEN [pending[x] EXCEPT !.detached = TRUE]
                   ELSE pending[x]]
  /\ reply' = R(c, "start", "ok")
  /\ UNCHANGED <<scores, tHist, gHist, nHist>>
  /\ StrictFrame

\* faulty variant: a symbol sent to a full identity buffer starts it over
B_Restarts(c, k) ==
  /\ IF ~(k >= 0 /\ k < 64)
       THEN /\ reply' = R(c, "b", "bad")
            /\ UNCHANGED <<SESSIONS, appended>>
       ELSE LET s == ensureSess(c)
                a == AppendedOf(c)
                sym == <<ALPHABET[k + 1]>>
            IN /\ SESSIONS' = Put(SESSIONS, c,
                                  [s EXCEPT !.fpBuf = IF Len(@) < FP_CAP THEN @ \o sym
                                                      ELSE sym])
               /\ appended' = [appended EXCEPT
                                 ![c] = [a EXCEPT !.fp = Append(@, ALPHABET[k + 1])]]
               /\ reply' = R(c, "b", "ok")
  /\ UNCHANGED <<scores, pending, tHist, gHist, nHist>>
  /\ StrictFrame

\* GET /b/:k
B(c, k) ==
  /\ IF ~(k >= 0 /\ k < 64)
       THEN /\ reply' = R(c, "b", "bad")
            /\ UNCHANGED <<SESSIONS, appended>>
       ELSE LET s == ensureSess(c)
                a == AppendedOf(c)
            IN /\ SESSIONS' = Put(SESSIONS, c,
                                  [s EXCEPT !.fpBuf = AppendCapped(@, FP_CAP, k)])
               /\ appended' = [appended EXCEPT
                                 ![c] = [a EXCEPT !.fp = Append(@, ALPHABET[k + 1])]]
               /\ reply' = R(c, "b", "ok")
  /\ UNCHANGED <<scores, pending, tHist, gHist, nHist>>
  /\ StrictFrame

\* faulty variant: the reset arms the field but keeps what the buffer holds
Reset_KeepsBuffer(c, f) ==
  /\ LET s == ensureSess(c)
         a == AppendedOf(c)
     IN /\ SESSIONS' = Put(SESSIONS, c, [s EXCEPT ![ActiveOf(f)] = TRUE])
        /\ appended' = [appended EXCEPT ![c] = a]
  /\ reply' = R(c, ResetOp(f), "ok")
  /\ UNCHANGED <<scores, pending, tHist, gHist, nHist>>
  /\ StrictFrame

\* GET /nreset, /treset, /greset
Reset(c, f) ==
  /\ LET s == ensureSess(c)
         a == AppendedOf(c)
     IN /\ SESSIONS' = Put(SESSIONS, c,
                           [s EXCEPT ![ActiveOf(f)] = TRUE, ![BufOf(f)] = <<>>])
        /\ appended' = [appended EXCEPT ![c] = [a EXCEPT ![f] = <<>>]]
  /\ reply' = R(c, ResetOp(f), "ok")
  /\ UNCHANGED <<scores, pending, tHist, gHist, nHist>>
  /\ StrictFrame

NReset(c) == Reset(c, "name")

TReset(c) == Reset(c, "time")

GReset(c) == Reset(c, "beans")

\* GET /n/:k, /t/:k, /g/:k
Sym(c, f, k) ==
  /\ IF ~(k >= 0 /\ k < 64)
       THEN /\ reply' = R(c, SymOp(f), "bad")
            /\ UNCHANGED <<SESSIONS, appended>>
       ELSE LET s == ensureSess(c)
                a == AppendedOf(c)
            IN IF Len(s.fpBuf) < 8
                 THEN /\ SESSIONS' = Put(SESSIONS, c, s)
                      /\ appended' = [appended EXCEPT ![c] = a]
                      /\ reply' = R(c, SymOp(f), "noid")
               ELSE IF ~s[ActiveOf(f)]
                 THEN /\ SESSIONS' = Put(SESSIONS, c, s)
                      /\ appended' = [appended EXCEPT ![c] = a]
                      /\ reply' = R(c, SymOp(f), "noreset")
               ELSE /\ SESSIONS' = Put(SESSIONS, c,
                          [s EXCEPT ![BufOf(f)] = AppendCapped(@, CapOf(f), k)])
                    /\ appended' = [appended EXCEPT
                          ![c] = [a EXCEPT ![f] = Append(@, ALPHABET[k + 1])]]
                    /\ reply' = R(c, SymOp(f), "ok")
  /\ UNCHANGED <<scores, pending, tHist, gHist, nHist>>
  /\ StrictFrame

NSym(c, k) == Sym(c, "name", k)

TSym(c, k) == Sym(c, "time", k)

GSym(c, k) == Sym(c, "beans", k)

\* faulty variant: the test of the empty buffer is missing
CommitRefused_NoLength(c, f) ==
  \/ c \notin DOMAIN SESSIONS
  \/ Len(SESSIONS[c].fpBuf) < 8
  \/ ~SESSIONS[c][ActiveOf(f)]

\* the guard of a field commit: "!s || s.fpBuf.length < 8 || !s.<f>Active || !s.<f>Buf.length"
CommitRefused(c, f) ==
  \/ c \notin DOMAIN SESSIONS
  \/ Len(SESSIONS[c].fpBuf) < 8
  \/ ~SESSIONS[c][ActiveOf(f)]
  \/ Len(SESSIONS[c][BufOf(f)]) = 0

\* the answer of a handler that returns before it reaches the store
Refuse(c, op, ans) ==
  /\ reply' = R(c, op, ans)
  /\ UNCHANGED <<SESSIONS, appended, scores, pending, tHist, gHist, nHist>>
  /\ StrictFrame

\* the handler reaches its first await: the request is in flight
Await(c, req) ==
  /\ pending' = Put(pending, c, req)
  /\ reply' = R(c, req.op, "wait")
  /\ UNCHANGED <<SESSIONS, appended, scores, tHist, gHist, nHist>>
  /\ StrictFrame

\* GET /ncommit, up to the first await
NCommit(c) ==
  IF CommitRefused(c, "name") THEN Refuse(c, "ncommit", "noid")
  ELSE LET s == SESSIONS[c]
       IN Await(c, Req("ncommit", UserIdHash(s.fpBuf), s.nameBuf, <<>>, NULL, s))

\* GET /tcommit, up to the await
TCommit(c) ==
  IF CommitRefused(c, "time") THEN Refuse(c, "tcommit", "noid")
  ELSE LET s == SESSIONS[c]
           total_ms == decodeBase64AlphabetToNumber(s.timeBuf, MAX_MS)
       IN IF total_ms = Null THEN Refuse(c, "tcommit", "bad")
          ELSE Await(c, Req("tcommit", UserIdHash(s.fpBuf), <<>>, total_ms, NULL, s))

\* GET /gcommit, up to the await
GCommit(c) ==
  IF CommitRefused(c, "beans") THEN Refuse(c, "gcommit", "noid")
  ELSE LET s == SESSIONS[c]
           beans == decodeBase64AlphabetToNumber(s.beansBuf, MAX_BEANS)
       IN IF beans = Null THEN Refuse(c, "gcommit", "bad")
          ELSE Await(c, Req("gcommit", UserIdHash(s.fpBuf), <<>>, beans, NULL, s))

\* GET /commit, up to the await; q is the query parameter world ("" when absent)
Commit(c, q) ==
  IF c \notin DOMAIN SESSIONS \/ Len(SESSIONS[c].fpBuf) < 8
    THEN Refuse(c, "commit", "noid")
  ELSE LET s == SESSIONS[c]
       IN Await(c, Req("commit", UserIdHash(s.fpBuf), <<>>, <<>>, WorldOf(q), s))

(* The statements sent to the store *)

\* faulty variant: ON CONFLICT also sets beans = EXCLUDED.beans, the 0 of VALUES
UpsertTotal_SetsBeans(sc, uid, val) ==
  IF uid \in DOMAIN sc
    THEN [sc EXCEPT ![uid] = [@ EXCEPT !.total_ms = GREATEST(@, val),
                                       !.beans = <<>>,
                                       !.updated_at = now]]
    ELSE Put(sc, uid, Row(DefaultName(uid), NULL, val, <<>>))

\* faulty variant: SET total_ms = EXCLUDED.total_ms
UpsertTotal_Overwrite(sc, uid, val) ==
  IF uid \in DOMAIN sc
    THEN Put(sc, uid, [sc[uid] EXCEPT !.total_ms = val, !.updated_at = now])
    ELSE Put(sc, uid, Row(DefaultName(uid), NULL, val, <<>>))

\* INSERT ... ON CONFLICT DO UPDATE SET total_ms = GREATEST(scores.total_ms, EXCLUDED.total_ms)
UpsertTotal(sc, uid, val) ==
  IF uid \in DOMAIN sc
    THEN [sc EXCEPT ![uid] = [@ EXCEPT !.total_ms = GREATEST(@, val),
                                       !.updated_at = now]]
    ELSE Put(sc, uid, Row(DefaultName(uid), NULL, val, <<>>))

\* INSERT ... ON CONFLICT DO UPDATE SET beans = GREATEST(scores.beans, EXCLUDED.beans)
UpsertBeans(sc, uid, val) ==
  IF uid \in DOMAIN sc
    THEN [sc EXCEPT ![uid] = [@ EXCEPT !.beans = GREATEST(@, val),
                                       !.updated_at = now]]
    ELSE Put(sc, uid, Row(DefaultName(uid), NULL, <<>>, val))

\* INSERT ... ON CONFLICT DO UPDATE SET world_id = EXCLUDED.world_id
UpsertWorld(sc, uid, world) ==
  IF uid \in DOMAIN sc
    THEN [sc EXCEPT ![uid] = [@ EXCEPT !.world_id = world, !.updated_at = now]]
    ELSE Put(sc, uid, Row(DefaultName(uid), world, <<>>, <<>>))

\* faulty variant: ON CONFLICT DO NOTHING
UpsertName_DoNothing(sc, uid, name) ==
  IF uid \in DOMAIN sc THEN sc ELSE Put(sc, uid, Row(name, NULL, <<>>, <<>>))

\* INSERT ... ON CONFLICT DO UPDATE SET display_name = EXCLUDED.display_name
UpsertName(sc, uid, name) ==
  IF uid \in DOMAIN sc
    THEN [sc EXCEPT ![uid] = [@ EXCEPT !.display_name = name, !.updated_at = now]]
    ELSE Put(sc, uid, Row(name, NULL, <<>>, <<>>))

RECURSIVE ColMax(_, _, _)
\* MAX(col) over the rows with the keys ks (0 for no row: "rows[0]?.m_ms || 0")
ColMax(sc, ks, col) ==
  IF ks = {} THEN <<>>
  ELSE LET k == CHOOSE x \in ks : TRUE
       IN GREATEST(sc[k][col], ColMax(sc, ks \ {k}, col))

NamedLike(sc, name) == {k \in DOMAIN sc : sc[k].display_name = name}

\* SELECT MAX(total_ms) AS m_ms, MAX(beans) AS m_beans FROM scores WHERE display_name=$1
SelectMax(sc, name) ==
  [m_ms |-> ColMax(sc, NamedLike(sc, name), "total_ms"),
   m_beans |-> ColMax(sc, NamedLike(sc, name), "beans")]

\* faulty variant: the best beans count of the duplicates is not carried over
UpdateBest_TotalOnly(sc, uid, m_ms, m_beans) ==
  IF uid \in DOMAIN sc
    THEN [sc EXCEPT ![uid] = [@ EXCEPT !.total_ms = GREATEST(@, m_ms),
                                       !.updated_at = now]]
    ELSE sc

\* UPDATE scores SET total_ms = GREATEST(total_ms,$2), beans = GREATEST(beans,$3) WHERE user_id_hash=$1
UpdateBest(sc, uid, m_ms, m_beans) ==
  IF uid \in DOMAIN sc
    THEN [sc EXCEPT ![uid] = [@ EXCEPT !.total_ms = GREATEST(@, m_ms),
                                       !.beans = GREATEST(@, m_beans),
                                       !.updated_at = now]]
    ELSE sc

\* DELETE FROM scores WHERE display_name=$1 AND user_id_hash<>$2
DeleteDuplicates(sc, name, uid) == Drop(sc, NamedLike(sc, name) \ {uid})

\* after the last await of a field commit: the buffer is cleared and ok is sent
Cleared(c, f) ==
  /\ IF pending[c].detached
       THEN UNCHANGED <<SESSIONS, appended>>
       ELSE /\ SESSIONS' = [SESSIONS EXCEPT ![c] =
                              [@ EXCEPT ![ActiveOf(f)] = FALSE, ![BufOf(f)] = <<>>,
                                        !.lastSeen = now]]
            /\ appended' = [appended EXCEPT ![c] = [@ EXCEPT ![f] = <<>>]]
  /\ pending' = Drop(pending, {c})
  /\ reply' = R(c, CommitOp(f), "ok")

InFlight(c, op, stage) ==
  c \in DOMAIN pending /\ pending[c].op = op /\ pending[c].stage = stage

\* /ncommit: the upsert of the name has run; the SELECT is sent
NCommitUpsert(c) ==
  /\ InFlight(c, "ncommit", 1)
  /\ scores' = UpsertName(scores, pending[c].uid, pending[c].name)
  /\ pending' = [pending EXCEPT ![c] = [@ EXCEPT !.stage = 2]]
  /\ reply' = R(c, "ncommit", "wait")
  /\ UNCHANGED <<SESSIONS, appended, tHist, gHist, nHist>>
  /\ StrictFrame

\* /ncommit: the SELECT MAX has run; the UPDATE is sent
NCommitSelect(c) ==
  /\ InFlight(c, "ncommit", 2)
  /\ LET m == SelectMax(scores, pending[c].name)
     IN pending' = [pending EXCEPT ![c] = [@ EXCEPT !.stage = 3,
                                                   !.m_ms = m.m_ms,
                                                   !.m_beans = m.m_beans]]
  /\ reply' = R(c, "ncommit", "wait")
  /\ UNCHANGED <<SESSIONS, appended, scores, tHist, gHist, nHist>>
  /\ StrictFrame

\* /ncommit: the UPDATE has run; the DELETE is sent
NCommitUpdate(c) ==
  /\ InFlight(c, "ncommit", 3)
  /\ scores' = UpdateBest(scores, pending[c].uid, pending[c].m_ms, pending[c].m_beans)
  /\ pending' = [pending EXCEPT ![c] = [@ EXCEPT !.stage = 4]]
  /\ reply' = R(c, "ncommit", "wait")
  /\ UNCHANGED <<SESSIONS, appended, tHist, gHist, nHist>>
  /\ StrictFrame

\* /ncommit: the DELETE has run; the buffer is cleared and ok is sent
NCommitDelete(c) ==
  /\ InFlight(c, "ncommit", 4)
  /\ scores' = DeleteDuplicates(scores, pending[c].name, pending[c].uid)
  /\ Cleared(c, "name")
  /\ nHist' = Logged(nHist, pending[c].uid, pending[c].name)
  /\ UNCHANGED <<tHist, gHist>>
  /\ StrictFrame

\* /tcommit: the upsert has run; the buffer is cleared and ok is sent
TCommitDone(c) ==
  /\ InFlight(c, "tcommit", 1)
  /\ scores' = UpsertTotal(scores, pending[c].uid, pending[c].val)
  /\ Cleared(c, "time")
  /\ tHist' = Logged(tHist, pending[c].uid, pending[c].val)
  /\ UNCHANGED <<gHist, nHist>>
  /\ StrictFrame

\* /gcommit: the upsert has run; the buffer is cleared and ok is sent
GCommitDone(c) ==
  /\ InFlight(c, "gcommit", 1)
  /\ scores' = UpsertBeans(scores, pending[c].uid, pending[c].val)
  /\ Cleared(c, "beans")
  /\ gHist' = Logged(gHist, pending[c].uid, pending[c].val)
  /\ UNCHANGED <<tHist, nHist>>
  /\ StrictFrame

\* /commit: the upsert has run; ok is sent (the session is not written)
CommitDone(c) ==
  /\ InFlight(c, "commit", 1)
  /\ scores' = UpsertWorld(scores, pending[c].uid, pending[c].world)
  /\ pending' = Drop(pending, {c})
  /\ reply' = R(c, "commit", "ok")
  /\ UNCHANGED <<SESSIONS, appended, tHist, gHist, nHist>>
  /\ StrictFrame

\* faulty variant: the buffer is emptied before the store has confirmed
DbFail_Cleared(c) ==
  /\ c \in DOMAIN pending
  /\ pending[c].op # "commit"
  /\ SESSIONS' = IF pending[c].detached THEN SESSIONS
                 ELSE [SESSIONS EXCEPT ![c] =
                         [@ EXCEPT ![BufOf(IF pending[c].op = "ncommit" THEN "name"
                                           ELSE IF pending[c].op = "tcommit" THEN "time"
                                           ELSE "beans")] = <<>>]]
  /\ pending' = Drop(pending, {c})
  /\ reply' = R(c, pending[c].op, "db")
  /\ failed' = Put(failed, c, [op |-> pending[c].op, uid |-> pending[c].uid,
                               name |-> pending[c].name, val |-> pending[c].val])
  /\ UNCHANGED <<appended, scores, tHist, gHist, nHist>>
  /\ UNCHANGED <<SESS, hello, now, lastSweep, variant, board>>

\* pool.query rejects: the catch block answers db (status 500)
DbFail(c) ==
  /\ c \in DOMAIN pending
  /\ pending' = Drop(pending, {c})
  /\ reply' = R(c, pending[c].op, "db")
  /\ failed' = Put(failed, c, [op |-> pending[c].op, uid |-> pending[c].uid,
                               name |-> pending[c].name, val |-> pending[c].val])
  /\ UNCHANGED <<SESSIONS, appended, scores, tHist, gHist, nHist>>
  /\ UNCHANGED <<SESS, hello, now, lastSweep, variant, board>>

\* faulty variant: the operands of the age are swapped
Expired_Swapped(t) == {k \in DOMAIN SESSIONS : SESSIONS[k].lastSeen - t > SESSION_TTL_MS}

\* faulty variant: a session is removed when its age reaches the TTL
Expired_AtTtl(t) == {k \in DOMAIN SESSIONS : t - SESSIONS[k].lastSeen >= SESSION_TTL_MS}

\* the sessions the sweep removes at time t
Expired(t) == {k \in DOMAIN SESSIONS : t - SESSIONS[k].lastSeen > SESSION_TTL_MS}

\* setInterval(..., 30_000): the sweep of SESSIONS
Sweep ==
  /\ now - lastSweep >= SWEEP_MS
  /\ lastSweep' = now
  /\ SESSIONS' = Drop(SESSIONS, Expired(now))
  /\ appended' = [x \in IPs |-> IF x \in Expired(now) THEN NoAppended ELSE appended[x]]
  /\ pending' = [x \in DOMAIN pending |->
                   IF x \in Expired(now) THEN [pending[x] EXCEPT !.detached = TRUE]
                   ELSE pending[x]]
  /\ reply' = NoReply
  /\ UNCHANGED <<scores, tHist, gHist, nHist, SESS, hello, now, variant, failed, board>>

\* time passes (the sweep runs when its interval has elapsed)
Tick(ms, max) ==
  /\ now - lastSweep < SWEEP_MS
  /\ now < ms * max
  /\ now' = now + ms
  /\ reply' = NoReply
  /\ UNCHANGED <<SESSIONS, SESS, scores, lastSweep, pending, appended,
                 tHist, gHist, nHist, hello, variant, failed, board>>

-----------------------------------------------------------------------------
(* The beacon variant (src/server.js, lines 521-899).  Every read of an optional
   session field in that code goes through !x, x || d or x && ..., which treat
   undefined like "" and like 0, so an absent field is "" or 0 here. *)

SESS_TTL_MS == 600000

FRESH_MAX_AGE_MS == 300000

\* 1e13, the clamp of decodeBase64AlphabetNum
BeaconCap == NumMul(Num(10000000), 1000000)

Player == <<"P","l","a","y","e","r">>

\* const k = Math.max(0, Math.min(parseInt(req.params.k,10), 63))
ClampK(k) == IF k < 0 THEN 0 ELSE IF k > 63 THEN 63 ELSE k

idxToChar(i) == IF i >= 0 /\ i < 64 THEN ALPHABET[i + 1] ELSE "_"

charToIdx(c) == alphaIndex(c)

RECURSIVE BeaconDecodeFrom(_, _)
\* the loop of decodeBase64AlphabetNum: a character outside the alphabet is skipped
BeaconDecodeFrom(s, v) ==
  IF s = <<>> THEN v
  ELSE LET i == charToIdx(s[1])
       IN IF i < 0 THEN BeaconDecodeFrom(Tail(s), v)
          ELSE BeaconDecodeFrom(Tail(s), MulAdd64(v, i))

decodeBase64AlphabetNum(s) ==
  LET v == BeaconDecodeFrom(s, <<>>)
  IN IF NumLess(BeaconCap, v) THEN BeaconCap ELSE v

\* \w, space and "-" are kept by cleanName; anything else becomes a space
Kept(ch) == alphaIndex(ch) >= 0 \/ ch = " "

RECURSIVE Squeeze(_)
\* replace(/\s+/g, " ")
Squeeze(s) ==
  IF Len(s) < 2 THEN s
  ELSE IF s[1] = " " /\ s[2] = " " THEN Squeeze(Tail(s))
  ELSE <<s[1]>> \o Squeeze(Tail(s))

\* trim() of a string whose runs of spaces are single
Trim(s) ==
  LET a == IF s # <<>> /\ s[1] = " " THEN Tail(s) ELSE s
  IN IF a # <<>> /\ a[Len(a)] = " " THEN SubSeq(a, 1, Len(a) - 1) ELSE a

cleanName(s) ==
  IF s = <<>> THEN Player
  ELSE LET a == [i \in 1..Len(s) |-> IF Kept(s[i]) THEN s[i] ELSE " "]
           b == Trim(Squeeze(a))
       IN IF b = <<>> THEN Player ELSE Take(b, 24)

\* the header "_1__" or "-1__" is dropped, underscores become spaces; null is ""
normalizeBeaconName(raw) ==
  IF raw = <<>> THEN <<>>
  ELSE LET hdr == /\ Len(raw) >= 4
                  /\ raw[1] \in {"-", "_"}
                  /\ alphaIndex(raw[2]) >= 0 /\ alphaIndex(raw[2]) < 62
                  /\ raw[3] = "_" /\ raw[4] = "_"
           a == IF hdr THEN SubSeq(raw, 5, Len(raw)) ELSE raw
           b == [i \in 1..Len(a) |-> IF a[i] = "_" THEN " " ELSE a[i]]
       IN cleanName(b)

\* the session touch() creates: {}
NoSess ==
  [last |-> 0, fpBuf |-> <<>>, world |-> <<>>, helloAt |-> 0,
   nBuf |-> <<>>, tBuf |-> <<>>, cBuf |-> <<>>]

touch(ip) ==
  [(IF ip \in DOMAIN SESS THEN SESS[ip] ELSE NoSess) EXCEPT !.last = now]

\* faulty variant: the age is taken from the last call instead of the last /commit
handshakeFresh_Last(s) == s.helloAt # 0 /\ now - s.last <= FRESH_MAX_AGE_MS

handshakeFresh(s) == s.helloAt # 0 /\ now - s.helloAt <= FRESH_MAX_AGE_MS

\* the first 8 hex digits of the SHA-1 of the address: some fixed function of it
Sha1Hex8(ip) ==
  IF ip = "ip1" THEN <<"4","b","8","4","b","1","5","b">>
  ELSE <<"8","9","e","4","9","5","e","7">>

uidFromSession(s, ip) ==
  IF Len(s.fpBuf) > 0 THEN s.fpBuf ELSE <<"i","p","-">> \o Sha1Hex8(ip)

\* world || "default", cut at 64
WorldOr(world) == Take(IF world = <<>> THEN DefaultWorld ELSE world, 64)

\* ensureRow: INSERT ... ON CONFLICT DO UPDATE SET world_id = EXCLUDED.world_id
ensureRow(sc, uid, world, displayName) ==
  LET name == cleanName(IF displayName = <<>> THEN Player \o <<"-">> \o uid
                        ELSE displayName)
  IN IF uid \in DOMAIN sc
       THEN [sc EXCEPT ![uid] = [@ EXCEPT !.world_id = WorldOr(world),
                                          !.updated_at = now]]
       ELSE Put(sc, uid, Row(name, WorldOr(world), <<>>, <<>>))

\* what no handler of the beacon variant touches
BeaconFrame ==
  UNCHANGED <<SESSIONS, appended, tHist, gHist, nHist, now, lastSweep, variant, failed, board>>

\* what no handler of the beacon variant but /commit touches
BeaconRest == UNCHANGED hello /\ BeaconFrame

BeaconBuf(f) == CASE f = "n" -> "nBuf" [] f = "t" -> "tBuf" [] f = "c" -> "cBuf"

BeaconResetOp(f) == CASE f = "n" -> "nreset" [] f = "t" -> "treset" [] f = "c" -> "creset"

BeaconCommitOp(f) == CASE f = "n" -> "ncommit" [] f = "t" -> "tcommit" [] f = "c" -> "ccommit"

\* GET /reset: SESS.clear()
BeaconReset(c) ==
  /\ SESS' = EmptyMap
  /\ pending' = [x \in DOMAIN pending |-> [pending[x] EXCEPT !.detached = TRUE]]
  /\ reply' = R(c, "reset", "ok")
  /\ UNCHANGED scores
  /\ BeaconRest

\* GET /b/:k
BeaconB(c, k) ==
  /\ LET s == touch(c)
         ch == idxToChar(ClampK(k))
         kept == IF s.fpBuf = <<>> \/ Len(s.fpBuf) >= 8 THEN <<>> ELSE s.fpBuf
     IN SESS' = Put(SESS, c, [s EXCEPT !.fpBuf = Append(kept, ch)])
  /\ reply' = R(c, "b", "ok")
  /\ UNCHANGED <<scores, pending>>
  /\ BeaconRest

\* GET /commit: the handshake; q is the query parameter world ("" when absent)
BeaconCommit(c, q) ==
  /\ SESS' = Put(SESS, c, [touch(c) EXCEPT !.world = WorldOr(q), !.helloAt = now])
  /\ hello' = [hello EXCEPT ![c] = now]
  /\ reply' = R(c, "commit", "ok")
  /\ UNCHANGED <<scores, pending>>
  /\ BeaconFrame

\* GET /nreset, /treset, /creset
BeaconFieldReset(c, f) ==
  /\ LET s == touch(c)
     IN IF ~handshakeFresh(s)
          THEN SESS' = Put(SESS, c, s) /\ reply' = R(c, BeaconResetOp(f), "old")
          ELSE /\ SESS' = Put(SESS, c, [s EXCEPT ![BeaconBuf(f)] = <<>>])
               /\ reply' = R(c, BeaconResetOp(f), "ok")
  /\ UNCHANGED <<scores, pending>>
  /\ BeaconRest

\* GET /n/:k, /t/:k, /c/:k
BeaconSym(c, f, k) ==
  /\ LET s == touch(c)
     IN IF ~handshakeFresh(s)
          THEN SESS' = Put(SESS, c, s) /\ reply' = R(c, f, "old")
          ELSE /\ SESS' = Put(SESS, c,
                      [s EXCEPT ![BeaconBuf(f)] = Append(@, idxToChar(ClampK(k)))])
               /\ reply' = R(c, f, "ok")
  /\ UNCHANGED <<scores, pending>>
  /\ BeaconRest

\* what /ncommit, /tcommit and /ccommit compute before their first await
BeaconReq(c, f, s) ==
  LET uid == uidFromSession(s, c)
      norm == normalizeBeaconName(s.nBuf)
  IN CASE f = "n" -> Req("ncommit", uid,
                         IF norm = <<>> THEN Player \o <<"-">> \o uid ELSE norm,
                         <<>>, s.world, s)
       [] f = "t" -> Req("tcommit", uid, <<>>, decodeBase64AlphabetNum(s.tBuf), s.world, s)
       [] f = "c" -> Req("ccommit", uid, <<>>, decodeBase64AlphabetNum(s.cBuf), s.world, s)

\* GET /ncommit, /tcommit, /ccommit, up to the first await
BeaconFieldCommit(c, f) ==
  /\ LET s == touch(c)
     IN /\ SESS' = Put(SESS, c, s)
        /\ IF ~handshakeFresh(s)
             THEN reply' = R(c, BeaconCommitOp(f), "old") /\ UNCHANGED pending
             ELSE /\ pending' = Put(pending, c, BeaconReq(c, f, s))
                  /\ reply' = R(c, BeaconCommitOp(f), "wait")
  /\ UNCHANGED scores
  /\ BeaconRest

\* the session object a handler in flight still holds
Held(c) ==
  IF pending[c].detached \/ c \notin DOMAIN SESS THEN pending[c].sess ELSE SESS[c]

\* ensureRow has run; the UPDATE is sent
BeaconEnsureRow(c) ==
  /\ c \in DOMAIN pending /\ pending[c].stage = 1
  /\ scores' = ensureRow(scores, pending[c].uid, pending[c].world, pending[c].name)
  /\ pending' = [pending EXCEPT ![c] = [@ EXCEPT !.stage = 2]]
  /\ reply' = R(c, pending[c].op, "wait")
  /\ UNCHANGED SESS
  /\ BeaconRest

\* the row the UPDATE of a beacon field commit leaves under its key
BeaconUpdated(row, p, world) ==
  CASE p.op = "ncommit" ->
         [row EXCEPT !.display_name = p.name, !.world_id = world, !.updated_at = now]
    [] p.op = "tcommit" ->
         [row EXCEPT !.total_ms = GREATEST(@, p.val), !.world_id = world,
                     !.updated_at = now]
    [] p.op = "ccommit" ->
         [row EXCEPT !.beans = p.val, !.world_id = world, !.updated_at = now]

\* UPDATE scores SET ... WHERE user_id_hash=$1 has run; ok is sent
BeaconUpdate(c) ==
  /\ c \in DOMAIN pending /\ pending[c].stage = 2
  /\ LET p == pending[c]
     IN scores' = IF p.uid \in DOMAIN scores
                    THEN [scores EXCEPT
                            ![p.uid] = BeaconUpdated(@, p, WorldOr(Held(c).world))]
                    ELSE scores
  /\ pending' = Drop(pending, {c})
  /\ reply' = R(c, pending[c].op, "ok")
  /\ UNCHANGED SESS
  /\ BeaconRest

\* setInterval(..., 30000): the sweep of SESS
BeaconSweep ==
  /\ now - lastSweep >= SWEEP_MS
  /\ lastSweep' = now
  /\ LET gone == {k \in DOMAIN SESS : now - SESS[k].last > SESS_TTL_MS}
     IN /\ SESS' = Drop(SESS, gone)
        /\ pending' = [x \in DOMAIN pending |->
                         IF x \in gone THEN [pending[x] EXCEPT !.detached = TRUE]
                         ELSE pending[x]]
  /\ reply' = NoReply
  /\ UNCHANGED <<scores, SESSIONS, appended, tHist, gHist, nHist, hello, now, variant,
                 failed, board>>

-----------------------------------------------------------------------------
(* The variant of src/unnamed/part_002: no reset-before-write flags, and the
   column beans is named beans_count *)

\* 1e13, the cap /tcommit passes to decodeAlphaNum
CAP_1E13 == NumMul(Num(10000000), 1000000)

\* faulty variant: the first symbol is taken as the least significant
decodeAlphaNum_Reversed(sym, cap) ==
  LET v == DecodeFrom(Rev(sym), <<>>)
  IN IF v = Null THEN Null
     ELSE IF NumLess(cap, v) THEN cap
     ELSE v

\* decodeAlphaNum: a value above the cap is cut down to the cap
decodeAlphaNum(sym, cap) ==
  IF sym = <<>> THEN <<>>
  ELSE LET v == DecodeFrom(sym, <<>>)
       IN IF v = Null THEN Null
          ELSE IF NumLess(cap, v) THEN cap
          ELSE v

ensureSess002(ip) ==
  IF ip \in DOMAIN SESSIONS THEN [SESSIONS[ip] EXCEPT !.lastSeen = now]
  ELSE [fpBuf |-> <<>>, nameBuf |-> <<>>, timeBuf |-> <<>>, beansBuf |-> <<>>,
        lastSeen |-> now]

\* what the handlers of part_002 and part_001 modelled here never touch
OtherFrame ==
  UNCHANGED <<SESS, appended, gHist, nHist, hello, now, lastSweep, variant, failed, board>>

\* GET /b/:k
B002(c, k) ==
  /\ variant = "part_002"
  /\ IF ~(k >= 0 /\ k < 64)
       THEN reply' = R(c, "b", "bad") /\ UNCHANGED SESSIONS
       ELSE /\ SESSIONS' = Put(SESSIONS, c,
                 [ensureSess002(c) EXCEPT !.fpBuf = AppendCapped(@, 8, k)])
            /\ reply' = R(c, "b", "ok")
  /\ UNCHANGED <<scores, pending, tHist>>
  /\ OtherFrame

\* GET /treset
TReset002(c) ==
  /\ variant = "part_002"
  /\ SESSIONS' = Put(SESSIONS, c, [ensureSess002(c) EXCEPT !.timeBuf = <<>>])
  /\ reply' = R(c, "treset", "ok")
  /\ UNCHANGED <<scores, pending, tHist>>
  /\ OtherFrame

\* GET /t/:k
T002(c, k) ==
  /\ variant = "part_002"
  /\ IF ~(k >= 0 /\ k < 64)
       THEN reply' = R(c, "t", "bad") /\ UNCHANGED SESSIONS
       ELSE LET s == ensureSess002(c)
            IN IF Len(s.fpBuf) < 8
                 THEN SESSIONS' = Put(SESSIONS, c, s) /\ reply' = R(c, "t", "noid")
                 ELSE /\ SESSIONS' = Put(SESSIONS, c,
                           [s EXCEPT !.timeBuf = AppendCapped(@, 32, k)])
                      /\ reply' = R(c, "t", "ok")
  /\ UNCHANGED <<scores, pending, tHist>>
  /\ OtherFrame

\* GET /tcommit, up to the await
TCommit002(c) ==
  /\ variant = "part_002"
  /\ IF c \notin DOMAIN SESSIONS \/ Len(SESSIONS[c].fpBuf) < 8
        \/ SESSIONS[c].timeBuf = <<>>
       THEN reply' = R(c, "tcommit", "noid") /\ UNCHANGED pending
       ELSE LET s == SESSIONS[c]
                total_ms == decodeAlphaNum(s.timeBuf, CAP_1E13)
            IN IF total_ms = Null
                 THEN reply' = R(c, "tcommit", "bad") /\ UNCHANGED pending
                 ELSE /\ pending' = Put(pending, c,
                           Req("tcommit", UserIdHash(s.fpBuf), <<>>, total_ms, NULL, s))
                      /\ reply' = R(c, "tcommit", "wait")
  /\ UNCHANGED <<SESSIONS, scores, tHist>>
  /\ OtherFrame

\* INSERT ... ON CONFLICT DO UPDATE SET total_ms = EXCLUDED.total_ms
UpsertTotal002(sc, uid, val) ==
  IF uid \in DOMAIN sc
    THEN [sc EXCEPT ![uid] = [@ EXCEPT !.total_ms = val, !.updated_at = now]]
    ELSE Put(sc, uid, Row(DefaultName(uid), NULL, val, <<>>))

\* /tcommit: the upsert has run; the buffer is cleared and ok is sent
TCommitDone002(c) ==
  /\ variant = "part_002"
  /\ InFlight(c, "tcommit", 1)
  /\ scores' = UpsertTotal002(scores, pending[c].uid, pending[c].val)
  /\ SESSIONS' = IF pending[c].detached \/ c \notin DOMAIN SESSIONS THEN SESSIONS
                 ELSE [SESSIONS EXCEPT ![c] = [@ EXCEPT !.timeBuf = <<>>,
                                                       !.lastSeen = now]]
  /\ pending' = Drop(pending, {c})
  /\ reply' = R(c, "tcommit", "ok")
  /\ tHist' = Logged(tHist, pending[c].uid, pending[c].val)
  /\ OtherFrame

-----------------------------------------------------------------------------
(* The variant of src/unnamed/part_001: the key of a row is made of the world
   and the name, and is fixed by /ncommit.  A session field that is null and only
   ever read through !x or x || d is "" here; lastCommittedMs, compared with
   null, is Null. *)

\* 1e16: decode64ToNumber gives up above it (exact here, a double in the code:
\* the two differ only for values within a few units of 1e16)
CAP_1E16 == NumMul(NumMul(Num(10000), 1000000), 1000000)

RECURSIVE Decode64From(_, _)
\* the loop of decode64ToNumber over the rest of sym, from value v
Decode64From(sym, v) ==
  IF sym = <<>> THEN v
  ELSE LET k == alphaIndex(sym[1])
           w == MulAdd64(v, k)
       IN IF k < 0 THEN Null
          ELSE IF NumLess(CAP_1E16, w) THEN Null
          ELSE Decode64From(Tail(sym), w)

decode64ToNumber(sym, maxLen) ==
  IF sym = <<>> THEN <<>>
  ELSE LET v == Decode64From(Take(sym, maxLen), <<>>)
       IN IF v = Null THEN Null
          ELSE IF NumLess(CAP_1E13, v) THEN CAP_1E13
          ELSE v

RECURSIVE TrimAll(_)
\* String.prototype.trim over the characters the model has
TrimAll(s) ==
  IF s = <<>> THEN s
  ELSE IF s[1] = " " THEN TrimAll(Tail(s))
  ELSE IF s[Len(s)] = " " THEN TrimAll(SubSeq(s, 1, Len(s) - 1))
  ELSE s

sanitizeNameFromAlphabet(s) ==
  IF s = <<>> THEN Player ELSE Take(TrimAll(s), 24)

\* `wn_${world_id}_${display_name}`.slice(0, 160)
WorldNameKey(world_id, display_name) ==
  Take(<<"w","n","_">> \o world_id \o <<"_">> \o display_name, 160)

RECURSIVE split_part(_, _)
\* split_part(s, '_', n) of PostgreSQL
split_part(s, n) ==
  LET at == {j \in 1..Len(s) : s[j] = "_"}
      i == IF at = {} THEN 0 ELSE CHOOSE j \in at : \A x \in at : j <= x
  IN IF n = 1 THEN (IF i = 0 THEN s ELSE SubSeq(s, 1, i - 1))
     ELSE IF i = 0 THEN <<>>
     ELSE split_part(SubSeq(s, i + 1, Len(s)), n - 1)

ensureSess001(ip) ==
  IF ip \in DOMAIN SESSIONS THEN [SESSIONS[ip] EXCEPT !.lastSeen = now]
  ELSE [fpBuf |-> <<>>, nameBuf |-> <<>>, timeBuf |-> <<>>, beansBuf |-> <<>>,
        timeArmed |-> FALSE, beansArmed |-> FALSE,
        lastCommittedMs |-> Null, lastCommittedBeans |-> Null,
        worldId |-> <<>>, activeUserIdHash |-> <<>>, lastSeen |-> now]

\* a handler of part_001 that only writes the session and answers
Answer001(c, op, s, ans) ==
  /\ variant = "part_001"
  /\ SESSIONS' = Put(SESSIONS, c, s)
  /\ reply' = R(c, op, ans)
  /\ UNCHANGED <<scores, pending, tHist>>
  /\ OtherFrame

\* a handler of part_001 that answers and writes nothing
Refuse001(c, op, ans) ==
  /\ variant = "part_001"
  /\ reply' = R(c, op, ans)
  /\ UNCHANGED <<SESSIONS, scores, pending, tHist>>
  /\ OtherFrame

\* a handler of part_001 reaches its await
Await001(c, req) ==
  /\ variant = "part_001"
  /\ pending' = Put(pending, c, req)
  /\ reply' = R(c, req.op, "wait")
  /\ UNCHANGED <<SESSIONS, scores, tHist>>
  /\ OtherFrame

\* GET /b/:k
B001(c, k) ==
  IF ~(k >= 0 /\ k < 64) THEN Refuse001(c, "b", "bad")
  ELSE Answer001(c, "b", [ensureSess001(c) EXCEPT !.fpBuf = AppendCapped(@, 8, k)], "ok")

\* GET /commit: the world is kept in the session, no row is written
Commit001(c, q) ==
  LET s == ensureSess001(c)
  IN IF Len(s.fpBuf) < 8 THEN Answer001(c, "commit", s, "noid")
     ELSE Answer001(c, "commit", [s EXCEPT !.worldId = WorldOf(q)], "ok")

\* GET /nreset
NReset001(c) == Answer001(c, "nreset", [ensureSess001(c) EXCEPT !.nameBuf = <<>>], "ok")

\* GET /n/:k
N001(c, k) ==
  IF ~(k >= 0 /\ k < 64) THEN Refuse001(c, "n", "bad")
  ELSE Answer001(c, "n", [ensureSess001(c) EXCEPT !.nameBuf = AppendCapped(@, 24, k)], "ok")

\* GET /ncommit, up to the await
NCommit001(c) ==
  IF c \notin DOMAIN SESSIONS \/ Len(SESSIONS[c].fpBuf) < 8
     \/ SESSIONS[c].nameBuf = <<>>
    THEN Refuse001(c, "ncommit", "noid")
  ELSE LET s == SESSIONS[c]
           world_id == Take(IF s.worldId = <<>> THEN DefaultWorld ELSE s.worldId, 64)
           display_name == sanitizeNameFromAlphabet(s.nameBuf)
       IN Await001(c, Req("ncommit", WorldNameKey(world_id, display_name),
                          display_name, <<>>, world_id, s))

\* INSERT ... ON CONFLICT DO UPDATE SET display_name, world_id
UpsertName001(sc, uid, name, world) ==
  IF uid \in DOMAIN sc
    THEN [sc EXCEPT ![uid] = [@ EXCEPT !.display_name = name, !.world_id = world,
                                       !.updated_at = now]]
    ELSE Put(sc, uid, Row(name, world, <<>>, <<>>))

\* /ncommit: the upsert has run; the key is kept in the session and ok is sent
NCommitDone001(c) ==
  /\ variant = "part_001"
  /\ InFlight(c, "ncommit", 1)
  /\ scores' = UpsertName001(scores, pending[c].uid, pending[c].name, pending[c].world)
  /\ SESSIONS' = IF pending[c].detached \/ c \notin DOMAIN SESSIONS THEN SESSIONS
                 ELSE [SESSIONS EXCEPT ![c] = [@ EXCEPT !.nameBuf = <<>>,
                                    !.activeUserIdHash = pending[c].uid]]
  /\ pending' = Drop(pending, {c})
  /\ reply' = R(c, "ncommit", "ok")
  /\ UNCHANGED tHist
  /\ OtherFrame

\* GET /treset
TReset001(c) ==
  Answer001(c, "treset",
            [ensureSess001(c) EXCEPT !.timeBuf = <<>>, !.timeArmed = FALSE], "ok")

\* GET /t/:k
T001(c, k) ==
  IF ~(k >= 0 /\ k < 64) THEN Refuse001(c, "t", "bad")
  ELSE Answer001(c, "t", [ensureSess001(c) EXCEPT !.timeBuf = AppendCapped(@, 32, k),
                                                  !.timeArmed = TRUE], "ok")

\* GET /tcommit, up to the await
TCommit001(c) ==
  IF c \notin DOMAIN SESSIONS \/ SESSIONS[c].activeUserIdHash = <<>>
    THEN Refuse001(c, "tcommit", "noname")
  ELSE LET s == SESSIONS[c]
           disarmed == [s EXCEPT !.timeBuf = <<>>, !.timeArmed = FALSE]
           total_ms == decode64ToNumber(s.timeBuf, 32)
       IN IF ~s.timeArmed \/ s.timeBuf = <<>>
            THEN Answer001(c, "tcommit", disarmed, "noop")
          ELSE IF total_ms = Null THEN Refuse001(c, "tcommit", "bad")
          ELSE IF s.lastCommittedMs # Null /\ s.lastCommittedMs = total_ms
            THEN Answer001(c, "tcommit", disarmed, "noop")
          ELSE Await001(c, Req("tcommit", s.activeUserIdHash, <<>>, total_ms, NULL, s))

\* faulty variant: SET total_ms = GREATEST(scores.total_ms, EXCLUDED.total_ms)
UpsertTotal001_Greatest(sc, uid, val) ==
  IF uid \in DOMAIN sc
    THEN [sc EXCEPT ![uid] = [@ EXCEPT !.total_ms = GREATEST(@, val),
                                       !.updated_at = now]]
    ELSE Put(sc, uid, Row(split_part(uid, 3), split_part(uid, 2), val, <<>>))

\* INSERT ... ON CONFLICT DO UPDATE SET total_ms = EXCLUDED.total_ms -- OVERWRITE
UpsertTotal001(sc, uid, val) ==
  IF uid \in DOMAIN sc
    THEN [sc EXCEPT ![uid] = [@ EXCEPT !.total_ms = val, !.updated_at = now]]
    ELSE Put(sc, uid, Row(split_part(uid, 3), split_part(uid, 2), val, <<>>))

\* /tcommit: the upsert has run; the session is disarmed and ok is sent
TCommitDone001(c) ==
  /\ variant = "part_001"
  /\ InFlight(c, "tcommit", 1)
  /\ scores' = UpsertTotal001(scores, pending[c].uid, pending[c].val)
  /\ SESSIONS' = IF pending[c].detached \/ c \notin DOMAIN SESSIONS THEN SESSIONS
                 ELSE [SESSIONS EXCEPT ![c] = [@ EXCEPT
                         !.lastCommittedMs = pending[c].val,
                         !.timeBuf = <<>>, !.timeArmed = FALSE]]
  /\ pending' = Drop(pending, {c})
  /\ reply' = R(c, "tcommit", "ok")
  /\ tHist' = Logged(tHist, pending[c].uid, pending[c].val)
  /\ OtherFrame

-----------------------------------------------------------------------------
(* The clients of the strict variant: what they send *)

Hero == <<"H","e","r","o">>

Champ == <<"C","h","a","m","p">>

Arena == <<"A","r","e","n","a">>

IdentityA == <<"A","A","A","A","A","A","A","A">>

\* a symbol index outside 0..63
BadK == 64

\* the client's encoder: the word that decodes to the machine integer n
WordOf(n) == [i \in 1..Len(Digits(n)) |-> ALPHABET[Digits(n)[i] + 1]]

\* the indices a client may send next for buffer f: what it has had accepted
\* since the buffer was emptied stays a prefix of a word of ws
NextSyms(c, f, ws) ==
  LET a == AppendedOf(c)[f]
  IN {alphaIndex(w[Len(a) + 1]) : w \in {x \in ws : Len(a) < Len(x) /\ IsPrefix(a, x)}}

\* a client asks for a commit of f once it has sent a whole word, or nothing at all
Sent(c, f, ws) == AppendedOf(c)[f] \in ws \cup {<<>>}

\* a client has at most one commit in flight
Idle(c) == c \notin DOMAIN pending

\* a run that follows no script
Free == UNCHANGED <<script, pc>>

\* the requests one client makes, given the words it sends
Calls(c, in) ==
  \/ Idle(c) /\ Start(c) /\ Free
  \/ Idle(c) /\ (\E k \in NextSyms(c, "fp", in.fp) \cup in.bad : B(c, k)) /\ Free
  \/ Idle(c) /\ NReset(c) /\ Free
  \/ Idle(c) /\ (\E k \in NextSyms(c, "name", in.name) \cup in.bad : NSym(c, k)) /\ Free
  \/ Idle(c) /\ Sent(c, "name", in.name) /\ NCommit(c) /\ Free
  \/ Idle(c) /\ TReset(c) /\ Free
  \/ Idle(c) /\ (\E k \in NextSyms(c, "time", in.time) \cup in.bad : TSym(c, k)) /\ Free
  \/ Idle(c) /\ Sent(c, "time", in.time) /\ TCommit(c) /\ Free
  \/ Idle(c) /\ GReset(c) /\ Free
  \/ Idle(c) /\ (\E k \in NextSyms(c, "beans", in.beans) \cup in.bad : GSym(c, k)) /\ Free
  \/ Idle(c) /\ Sent(c, "beans", in.beans) /\ GCommit(c) /\ Free
  \/ Idle(c) /\ (\E q \in in.world : Commit(c, q)) /\ Free

\* the store answers the request of c that is in flight
Store(c) ==
  \/ NCommitUpsert(c) /\ Free
  \/ NCommitSelect(c) /\ Free
  \/ NCommitUpdate(c) /\ Free
  \/ NCommitDelete(c) /\ Free
  \/ TCommitDone(c) /\ Free
  \/ GCommitDone(c) /\ Free
  \/ CommitDone(c) /\ Free

\* no leaderboard request was answered yet
NoBoard == [asked |-> 0, world |-> <<>>, keys |-> <<>>, rows |-> <<>>]

InitCommon ==
  /\ SESSIONS = EmptyMap
  /\ SESS = EmptyMap
  /\ scores = EmptyMap
  /\ lastSweep = 0
  /\ pending = EmptyMap
  /\ reply = NoReply
  /\ appended = [x \in IPs |-> NoAppended]
  /\ tHist = EmptyMap
  /\ gHist = EmptyMap
  /\ nHist = EmptyMap
  /\ hello = [x \in IPs |-> 0]
  /\ failed = EmptyMap
  /\ board = NoBoard

(* Spec: one client of the strict variant, all four fields, a store that works *)

Inputs ==
  [fp |-> {IdentityA}, name |-> {Hero, Champ}, time |-> {<<"B">>},
   beans |-> {<<"D">>}, world |-> {Arena}, bad |-> {BadK}]

Init == InitCommon /\ variant = "strict" /\ now = 0 /\ script = <<>> /\ pc = 0

Next == \E c \in {"ip1"} : Calls(c, Inputs) \/ Store(c)

Spec == Init /\ [][Next]_vars

Fields == {"name", "time", "beans"}

KeyA == UserIdHash(IdentityA)

\* the largest numeral of a non-empty set of numerals
SetMax(S) == CHOOSE m \in S : \A x \in S : NumLeq(x, m)

\* the step taken is the arrival of request op of client c
Arrives(c, op) == c \notin DOMAIN pending /\ reply'.ip = c /\ reply'.op = op

(* C4: after any sequence of successful commits for one key, with no name commit
   of that key in flight, the row's display_name is the name of the most recent
   /ncommit answered ok, whatever time, beans or world commits came before or
   after it. *)
C4_NameIsLastCommitted ==
  \A uid \in DOMAIN nHist :
    (\A c \in DOMAIN pending : ~(pending[c].op = "ncommit" /\ pending[c].uid = uid))
      => /\ uid \in DOMAIN scores
         /\ scores[uid].display_name = nHist[uid].last

\* "Champ" committed after "Hero", with time, beans and world commits around them
C4_Witness ==
  /\ pending = EmptyMap
  /\ KeyA \in DOMAIN nHist /\ KeyA \in DOMAIN tHist /\ KeyA \in DOMAIN gHist
  /\ nHist[KeyA] = [all |-> {Hero, Champ}, last |-> Champ]
  /\ scores[KeyA].display_name = Champ
  /\ scores[KeyA].world_id = Arena
  /\ reply = R("ip1", "gcommit", "ok")

(* C5: a /ncommit, /tcommit or /gcommit that arrives while the field's buffer is
   empty, or the session is absent, or the identity buffer has fewer than 8
   symbols, is answered noid with status 400 and leaves the store, the sessions
   and the requests in flight unchanged. *)
C5_EmptyCommitRefused ==
  [][\A c \in IPs : \A f \in Fields :
       ( /\ Arrives(c, CommitOp(f))
         /\ \/ c \notin DOMAIN SESSIONS
            \/ Len(SESSIONS[c].fpBuf) < 8
            \/ SESSIONS[c][BufOf(f)] = <<>> )
       => /\ reply'.ans = "noid"
          /\ StatusOf(reply'.ans) = 400
          /\ scores' = scores
          /\ SESSIONS' = SESSIONS
          /\ pending' = pending]_vars

\* a /tcommit refused only because timeBuf is empty, with a row in the store
C5_Witness ==
  /\ reply = R("ip1", "tcommit", "noid")
  /\ "ip1" \in DOMAIN SESSIONS
  /\ Len(SESSIONS["ip1"].fpBuf) = 8
  /\ SESSIONS["ip1"].timeActive
  /\ SESSIONS["ip1"].timeBuf = <<>>
  /\ KeyA \in DOMAIN scores

(* SpecMax: one client of the strict variant that commits times and bean counts
   in every order *)

MaxInputs ==
  [fp |-> {IdentityA}, time |-> {WordOf(5000), WordOf(3000)},
   beans |-> {WordOf(3), WordOf(7)}]

MaxCalls(c, in) ==
  \/ Idle(c) /\ Start(c) /\ Free
  \/ Idle(c) /\ (\E k \in NextSyms(c, "fp", in.fp) : B(c, k)) /\ Free
  \/ Idle(c) /\ TReset(c) /\ Free
  \/ Idle(c) /\ (\E k \in NextSyms(c, "time", in.time) : TSym(c, k)) /\ Free
  \/ Idle(c) /\ Sent(c, "time", in.time) /\ TCommit(c) /\ Free
  \/ Idle(c) /\ GReset(c) /\ Free
  \/ Idle(c) /\ (\E k \in NextSyms(c, "beans", in.beans) : GSym(c, k)) /\ Free
  \/ Idle(c) /\ Sent(c, "beans", in.beans) /\ GCommit(c) /\ Free

MaxStore(c) ==
  \/ TCommitDone(c) /\ Free
  \/ GCommitDone(c) /\ Free

NextMax == \E c \in {"ip1"} : MaxCalls(c, MaxInputs) \/ MaxStore(c)

SpecMax == Init /\ [][NextMax]_vars

(* C2: after any sequence of /tcommit answered ok for one key, in whatever order
   the values were committed, total_ms is the largest value committed, and after
   any sequence of /gcommit answered ok, beans is the largest count committed;
   in particular 3000 committed after 5000 leaves 5000. *)
C2_StoredIsMax ==
  /\ \A uid \in DOMAIN tHist :
       uid \in DOMAIN scores /\ scores[uid].total_ms = SetMax(tHist[uid].all)
  /\ \A uid \in DOMAIN gHist :
       uid \in DOMAIN scores /\ scores[uid].beans = SetMax(gHist[uid].all)

\* 3000 was committed after 5000 and the row still holds 5000
C2_Witness ==
  /\ KeyA \in DOMAIN tHist
  /\ tHist[KeyA] = [all |-> {Num(5000), Num(3000)}, last |-> Num(3000)]
  /\ reply = R("ip1", "tcommit", "ok")
  /\ scores[KeyA].total_ms = Num(5000)

(* SpecScenario: one client that plays a script of calls, each sent when the one
   before has been answered *)

Call(op, k, q) == [op |-> op, k |-> k, q |-> q]

\* one call per symbol of a word
SymCalls(op, word) == [i \in 1..Len(word) |-> Call(op, alphaIndex(word[i]), <<>>)]

SendName(name) ==
  <<Call("nreset", 0, <<>>)>> \o SymCalls("n", name) \o <<Call("ncommit", 0, <<>>)>>

SendTime(ms) ==
  <<Call("treset", 0, <<>>)>> \o SymCalls("t", WordOf(ms)) \o <<Call("tcommit", 0, <<>>)>>

SendBeans(n) ==
  <<Call("greset", 0, <<>>)>> \o SymCalls("g", WordOf(n)) \o <<Call("gcommit", 0, <<>>)>>

\* fingerprint, world, name, time and beans of one record
SendRecord(fp, world, name, ms, n) ==
  SymCalls("b", fp) \o <<Call("commit", 0, world)>> \o SendName(name)
    \o SendTime(ms) \o SendBeans(n)

Scripts ==
  {SendRecord(IdentityA, Arena, name, ms, 3) \o more :
     name \in {Hero, Champ}, ms \in {5000, 3000},
     more \in {<<>>, SendTime(3000), SendTime(5000), SendName(Champ), SendName(Hero)}}

\* the handler of one call
Do(c, call) ==
  CASE call.op = "b" -> B(c, call.k)
    [] call.op = "commit" -> Commit(c, call.q)
    [] call.op = "nreset" -> NReset(c)
    [] call.op = "n" -> NSym(c, call.k)
    [] call.op = "ncommit" -> NCommit(c)
    [] call.op = "treset" -> TReset(c)
    [] call.op = "t" -> TSym(c, call.k)
    [] call.op = "tcommit" -> TCommit(c)
    [] call.op = "greset" -> GReset(c)
    [] call.op = "g" -> GSym(c, call.k)
    [] call.op = "gcommit" -> GCommit(c)

Play(c) ==
  /\ Idle(c)
  /\ pc <= Len(script)
  /\ Do(c, script[pc])
  /\ pc' = pc + 1
  /\ UNCHANGED script

Played == pc > Len(script) /\ pending = EmptyMap

InitScenario ==
  /\ InitCommon
  /\ variant = "strict"
  /\ now = 0
  /\ script \in Scripts
  /\ pc = 1

NextScenario == \E c \in {"ip1"} : Play(c) \/ Store(c)

SpecScenario == InitScenario /\ [][NextScenario]_vars

TheScenario == SendRecord(IdentityA, Arena, Hero, 5000, 3)

(* C1: eight /b/0, then /commit?world=Arena, then name "Hero", time 5000 and
   beans 3, each written and committed: every call is answered ok, and at the end
   the store holds exactly one row, with display_name Hero, world_id Arena,
   total_ms 5000 and beans 3. *)
C1_Scenario ==
  script = TheScenario =>
    /\ reply.ans \in {"-", "wait", "ok"}
    /\ Played => /\ DOMAIN scores = {KeyA}
                 /\ scores[KeyA].display_name = Hero
                 /\ scores[KeyA].world_id = Arena
                 /\ scores[KeyA].total_ms = Num(5000)
                 /\ scores[KeyA].beans = Num(3)

\* the scenario has been played to its last answer
C1_Witness ==
  /\ script = TheScenario
  /\ Played
  /\ reply = R("ip1", "gcommit", "ok")
  /\ Cardinality(DOMAIN scores) = 1

(* SpecCap: one client of the strict variant that writes past the caps of its
   four buffers and never commits *)

\* the symbols of s other than "A"
Marks(s) == Cardinality({i \in 1..Len(s) : s[i] # "A"})

MarksOf(c) ==
  LET a == AppendedOf(c)
  IN Marks(a.fp) + Marks(a.name) + Marks(a.time) + Marks(a.beans)

\* the indices a client may send next for a buffer of capacity cap: up to MaxOver
\* symbols past the cap, at most MaxMarks of all its symbols being "B", and one
\* buffer written at a time
CapSyms(c, f, cap) ==
  LET a == AppendedOf(c)
  IN IF \/ Len(a[f]) >= cap + MaxOver
        \/ \E g \in Fields \ {f} : a[g] # <<>>
       THEN {}
       ELSE {0} \cup (IF MarksOf(c) < MaxMarks THEN {1} ELSE {})

CapCalls(c) ==
  \/ Start(c) /\ Free
  \/ (\E k \in CapSyms(c, "fp", FP_CAP) : B(c, k)) /\ Free
  \/ NReset(c) /\ Free
  \/ (\E k \in CapSyms(c, "name", NAME_CAP) : NSym(c, k)) /\ Free
  \/ TReset(c) /\ Free
  \/ (\E k \in CapSyms(c, "time", TIME_CAP) : TSym(c, k)) /\ Free
  \/ GReset(c) /\ Free
  \/ (\E k \in CapSyms(c, "beans", BEANS_CAP) : GSym(c, k)) /\ Free

NextCap == \E c \in {"ip1"} : CapCalls(c)

SpecCap == Init /\ [][NextCap]_vars

\* every buffer of every session is the first cap symbols accepted for it
FirstCapSymbols ==
  \A c \in DOMAIN SESSIONS :
    /\ SESSIONS[c].fpBuf = Take(appended[c].fp, 8)
    /\ SESSIONS[c].nameBuf = Take(appended[c].name, 24)
    /\ SESSIONS[c].timeBuf = Take(appended[c].time, 32)
    /\ SESSIONS[c].beansBuf = Take(appended[c].beans, 32)

\* an append that finds its buffer full is answered ok and changes no buffer
FullAppendOk ==
  \A c \in DOMAIN SESSIONS :
    /\ (Arrives(c, "b") /\ Len(SESSIONS[c].fpBuf) >= 8)
         => reply'.ans = "ok" /\ SESSIONS'[c].fpBuf = SESSIONS[c].fpBuf
    /\ \A f \in Fields :
         (Arrives(c, SymOp(f)) /\ Len(SESSIONS[c][BufOf(f)]) >= CapOf(f))
           => /\ reply'.ans = "ok"
              /\ \A g \in Fields : SESSIONS'[c][BufOf(g)] = SESSIONS[c][BufOf(g)]
              /\ SESSIONS'[c].fpBuf = SESSIONS[c].fpBuf

(* C10: after n symbols have been appended to a buffer since it was last emptied,
   the buffer holds the first min(n, cap) of them in order, with cap 8 for the
   fingerprint, 24 for the name, 32 for the time and 32 for the beans; an append
   past the cap is answered ok and changes nothing. *)
C10_BuffersCapped == []FirstCapSymbols /\ [][FullAppendOk]_vars

\* more symbols than the cap were accepted for the fingerprint and for the name,
\* one of them a "B" that was kept
C10_Witness ==
  /\ "ip1" \in DOMAIN SESSIONS
  /\ Len(appended["ip1"].fp) > 8
  /\ Len(appended["ip1"].name) > 24
  /\ Len(SESSIONS["ip1"].nameBuf) = 24
  /\ Marks(SESSIONS["ip1"].nameBuf) = 1
  /\ reply = R("ip1", "n", "ok")

(* SpecTtl: one client of the strict variant, the clock and the sweep *)

TtlInputs == [fp |-> {IdentityA}, time |-> {WordOf(5000)}]

TtlCalls(c, in) ==
  \/ Idle(c) /\ (\E k \in NextSyms(c, "fp", in.fp) : B(c, k)) /\ Free
  \/ Idle(c) /\ TReset(c) /\ Free
  \/ Idle(c) /\ (\E k \in NextSyms(c, "time", in.time) : TSym(c, k)) /\ Free
  \/ Idle(c) /\ Sent(c, "time", in.time) /\ TCommit(c) /\ Free
  \/ TCommitDone(c) /\ Free

NextTtl ==
  \/ \E c \in {"ip1"} : TtlCalls(c, TtlInputs)
  \/ Tick(TickMs, MaxTicks) /\ Free
  \/ Sweep /\ Free

SpecTtl == Init /\ [][NextTtl]_vars

\* the request of c in flight found, when it arrived, a session last seen more
\* than SESSION_TTL_MS before
StaleInFlight(c) ==
  /\ c \in DOMAIN pending
  /\ pending[c].op \in {"ncommit", "tcommit", "gcommit"}
  /\ pending[c].at - pending[c].sess.lastSeen > SESSION_TTL_MS

(* C7: a /ncommit, /tcommit or /gcommit that arrives more than SESSION_TTL_MS
   after the session was last seen is rejected: it is never answered ok and it
   never changes the store, also when it arrives between the expiry of the TTL
   and the next sweep. *)
C7_StaleCommitRejected ==
  [][\A c \in IPs :
       (StaleInFlight(c) /\ reply'.ip = c)
         => (reply'.ans # "ok" /\ scores' = scores)]_vars

-----------------------------------------------------------------------------
(* SpecBeacon: one client of the beacon variant, the clock standing still *)

BeaconFields == {"n", "t", "c"}

BeaconInputs ==
  [fp |-> {0}, n |-> {<<"H","i">>}, t |-> {WordOf(70)}, c |-> {WordOf(3)},
   world |-> {Arena}, keys |-> {1, 8}]

\* the buffer of field f of client c, "" when it has no session
BeaconBufOf(c, f) == IF c \in DOMAIN SESS THEN SESS[c][BeaconBuf(f)] ELSE <<>>

\* the indices a client may send next for buffer f: the buffer stays a prefix of
\* a word of ws
BeaconNext(c, f, ws) ==
  LET b == BeaconBufOf(c, f)
  IN {alphaIndex(w[Len(b) + 1]) : w \in {x \in ws : Len(b) < Len(x) /\ IsPrefix(b, x)}}

\* a client asks for a commit of f with a whole word or nothing in the buffer,
\* and with one of the given numbers of symbols in its fingerprint
BeaconSent(c, f, in) ==
  /\ BeaconBufOf(c, f) \in in[f] \cup {<<>>}
  /\ c \in DOMAIN SESS
  /\ Len(SESS[c].fpBuf) \in in.keys

BeaconCalls(c, in) ==
  \/ Idle(c) /\ BeaconReset(c) /\ Free
  \/ Idle(c) /\ (\E k \in in.fp : BeaconB(c, k)) /\ Free
  \/ Idle(c) /\ (\E q \in in.world : BeaconCommit(c, q)) /\ Free
  \/ Idle(c) /\ (\E f \in BeaconFields : BeaconFieldReset(c, f)) /\ Free
  \/ Idle(c) /\ (\E k \in BeaconNext(c, "n", in.n) : BeaconSym(c, "n", k)) /\ Free
  \/ Idle(c) /\ (\E k \in BeaconNext(c, "t", in.t) : BeaconSym(c, "t", k)) /\ Free
  \/ Idle(c) /\ (\E k \in BeaconNext(c, "c", in.c) : BeaconSym(c, "c", k)) /\ Free
  \/ Idle(c) /\ BeaconSent(c, "n", in) /\ BeaconFieldCommit(c, "n") /\ Free
  \/ Idle(c) /\ BeaconSent(c, "t", in) /\ BeaconFieldCommit(c, "t") /\ Free
  \/ Idle(c) /\ BeaconSent(c, "c", in) /\ BeaconFieldCommit(c, "c") /\ Free

BeaconStore(c) ==
  \/ BeaconEnsureRow(c) /\ Free
  \/ BeaconUpdate(c) /\ Free

\* Date.now() is never 0: the clock starts one tick after the epoch
InitBeacon ==
  /\ InitCommon
  /\ variant = "beacon"
  /\ now = BeaconTickMs
  /\ script = <<>>
  /\ pc = 0

NextBeacon == \E c \in {"ip1"} : BeaconCalls(c, BeaconInputs) \/ BeaconStore(c)

SpecBeacon == InitBeacon /\ [][NextBeacon]_vars

(* C6: a /ncommit, /tcommit or /ccommit of the beacon variant that found its
   buffer (nBuf, tBuf, cBuf) empty or never written is never answered ok and
   never changes the store. *)
C6_EmptyBeaconCommitRejected ==
  [][\A c \in IPs :
       ( /\ variant = "beacon"
         /\ c \in DOMAIN pending
         /\ \E f \in BeaconFields : /\ pending[c].op = BeaconCommitOp(f)
                                    /\ pending[c].sess[BeaconBuf(f)] = <<>>
         /\ reply'.ip = c )
       => (reply'.ans # "ok" /\ scores' = scores)]_vars

(* C9: a /ncommit, /tcommit or /ccommit of the beacon variant changes the store
   only when the fingerprint buffer it found held exactly 8 symbols, and the key
   it writes is those 8 symbols. *)
C9_KeyIsEightSymbols ==
  [][\A c \in IPs :
       ( /\ variant = "beacon"
         /\ c \in DOMAIN pending
         /\ reply'.ip = c
         /\ scores' # scores )
       => /\ Len(pending[c].sess.fpBuf) = 8
          /\ pending[c].uid = pending[c].sess.fpBuf
          /\ \A u \in DOMAIN scores' \ {pending[c].uid} :
               u \in DOMAIN scores /\ scores'[u] = scores[u]]_vars

-----------------------------------------------------------------------------
(* SpecFresh: one client of the beacon variant, the clock and the sweep *)

FreshInputs ==
  [fp |-> {0}, n |-> {}, t |-> {WordOf(70)}, c |-> {}, world |-> {Arena}, keys |-> {8}]

FreshCalls(c, in) ==
  \/ Idle(c) /\ (\E k \in in.fp : BeaconB(c, k)) /\ Free
  \/ Idle(c) /\ (\E q \in in.world : BeaconCommit(c, q)) /\ Free
  \/ Idle(c) /\ BeaconFieldReset(c, "t") /\ Free
  \/ Idle(c) /\ (\E k \in BeaconNext(c, "t", in.t) : BeaconSym(c, "t", k)) /\ Free
  \/ Idle(c) /\ BeaconSent(c, "n", in) /\ BeaconFieldCommit(c, "n") /\ Free
  \/ Idle(c) /\ BeaconSent(c, "t", in) /\ BeaconFieldCommit(c, "t") /\ Free
  \/ Idle(c) /\ BeaconSent(c, "c", in) /\ BeaconFieldCommit(c, "c") /\ Free

NextFresh ==
  \/ \E c \in {"ip1"} : FreshCalls(c, FreshInputs) \/ BeaconStore(c)
  \/ Tick(BeaconTickMs, MaxBeaconTicks) /\ Free
  \/ BeaconSweep /\ Free

SpecFresh == InitBeacon /\ [][NextFresh]_vars

(* C8: a /ncommit, /tcommit or /ccommit of the beacon variant that arrives more
   than FRESH_MAX_AGE_MS after the client's most recent /commit, or from a
   client that never called /commit, is answered old and neither writes to the
   store nor stays in flight, whatever calls the client made in between. *)
C8_StaleHandshakeOld ==
  [][\A c \in IPs : \A f \in BeaconFields :
       ( /\ variant = "beacon"
         /\ Arrives(c, BeaconCommitOp(f))
         /\ (hello[c] = 0 \/ now - hello[c] > FRESH_MAX_AGE_MS) )
       => /\ reply'.ans = "old"
          /\ scores' = scores
          /\ pending' = pending]_vars

\* a /tcommit answered old 400 s after the /commit, the session touched since,
\* after an earlier /tcommit was answered ok
C8_Witness ==
  /\ reply = R("ip1", "tcommit", "old")
  /\ hello["ip1"] # 0
  /\ now - hello["ip1"] > FRESH_MAX_AGE_MS
  /\ "ip1" \in DOMAIN SESS
  /\ SESS["ip1"].helloAt = hello["ip1"]
  /\ SESS["ip1"].tBuf = WordOf(70)
  /\ DOMAIN scores # {}

-----------------------------------------------------------------------------
(* SpecOverwrite: one client of the variant of part_002 or of part_001 that
   commits times in every order *)

OverwriteInputs ==
  [fp |-> {IdentityA}, name |-> {Hero}, time |-> {WordOf(5000), WordOf(3000)},
   world |-> {Arena}]

\* the buffer of client c, "" when it has no session
SessBuf(c, field) == IF c \in DOMAIN SESSIONS THEN SESSIONS[c][field] ELSE <<>>

\* the indices that keep buffer buf a prefix of a word of ws
BufNext(buf, ws) ==
  {alphaIndex(w[Len(buf) + 1]) : w \in {x \in ws : Len(buf) < Len(x) /\ IsPrefix(buf, x)}}

\* the variant that runs, and no commit of c in flight
Idle002(c) == variant = "part_002" /\ Idle(c)

Idle001(c) == variant = "part_001" /\ Idle(c)

Calls002(c, in) ==
  \/ Idle002(c) /\ (\E k \in BufNext(SessBuf(c, "fpBuf"), in.fp) : B002(c, k)) /\ Free
  \/ Idle002(c) /\ TReset002(c) /\ Free
  \/ Idle002(c) /\ (\E k \in BufNext(SessBuf(c, "timeBuf"), in.time) : T002(c, k)) /\ Free
  \/ Idle002(c) /\ SessBuf(c, "timeBuf") \in in.time \cup {<<>>} /\ TCommit002(c) /\ Free
  \/ variant = "part_002" /\ TCommitDone002(c) /\ Free

Calls001(c, in) ==
  \/ Idle001(c) /\ (\E k \in BufNext(SessBuf(c, "fpBuf"), in.fp) : B001(c, k)) /\ Free
  \/ Idle001(c) /\ (\E q \in in.world : Commit001(c, q)) /\ Free
  \/ Idle001(c) /\ NReset001(c) /\ Free
  \/ Idle001(c) /\ (\E k \in BufNext(SessBuf(c, "nameBuf"), in.name) : N001(c, k)) /\ Free
  \/ Idle001(c) /\ SessBuf(c, "nameBuf") \in in.name \cup {<<>>} /\ NCommit001(c) /\ Free
  \/ variant = "part_001" /\ NCommitDone001(c) /\ Free
  \/ Idle001(c) /\ TReset001(c) /\ Free
  \/ Idle001(c) /\ (\E k \in BufNext(SessBuf(c, "timeBuf"), in.time) : T001(c, k)) /\ Free
  \/ Idle001(c) /\ SessBuf(c, "timeBuf") \in in.time \cup {<<>>} /\ TCommit001(c) /\ Free
  \/ variant = "part_001" /\ TCommitDone001(c) /\ Free

InitOverwrite ==
  /\ InitCommon
  /\ variant \in {"part_002", "part_001"}
  /\ now = 0
  /\ script = <<>>
  /\ pc = 0

NextOverwrite ==
  \E c \in {"ip1"} : Calls002(c, OverwriteInputs) \/ Calls001(c, OverwriteInputs)

SpecOverwrite == InitOverwrite /\ [][NextOverwrite]_vars

(* C3, as it is stated: in the variants of part_002 and part_001 the total_ms
   stored under a key never decreases across the /tcommit calls answered ok. *)
C3_NeverDecreases ==
  [][\A uid \in DOMAIN scores :
       (variant \in {"part_002", "part_001"} /\ reply'.op = "tcommit" /\ reply'.ans = "ok")
         => /\ uid \in DOMAIN scores'
            /\ NumLeq(scores[uid].total_ms, scores'[uid].total_ms)]_vars

(* C3, amended: in the variants of part_002 and part_001 the total_ms stored
   under a key is the value of the most recent /tcommit answered ok for that key,
   also when that value is lower than the one stored before. *)
C3_StoresLastCommitted ==
  variant \in {"part_002", "part_001"} =>
    \A uid \in DOMAIN tHist :
      uid \in DOMAIN scores /\ scores[uid].total_ms = tHist[uid].last

\* part_001: 3000 was committed after 5000 and the row holds 3000
C3_Witness ==
  /\ variant = "part_001"
  /\ reply = R("ip1", "tcommit", "ok")
  /\ \E uid \in DOMAIN tHist :
       /\ tHist[uid] = [all |-> {Num(5000), Num(3000)}, last |-> Num(3000)]
       /\ scores[uid].total_ms = Num(3000)
       /\ scores[uid].display_name = Hero

-----------------------------------------------------------------------------
(* SpecBeaconCap: one client of the beacon variant that keeps appending to its
   name, time and counter buffers *)

\* the caps the buffers of the beacon variant are meant to have
BeaconCapOf(f) == CASE f = "n" -> 24 [] f = "t" -> 32 [] f = "c" -> 32

\* the fingerprint buffer of client c, "" when it has no session
BeaconFp(c) == IF c \in DOMAIN SESS THEN SESS[c].fpBuf ELSE <<>>

\* the client writes one buffer at a time, up to MaxOver symbols past its cap
BeaconCapSyms(c, f) ==
  IF \/ Len(BeaconBufOf(c, f)) >= BeaconCapOf(f) + MaxOver
     \/ \E g \in BeaconFields \ {f} : BeaconBufOf(c, g) # <<>>
    THEN {}
    ELSE {0}

BeaconCapCalls(c) ==
  \/ BeaconReset(c) /\ Free
  \/ Len(BeaconFp(c)) < 8 /\ (\E k \in {0} : BeaconB(c, k)) /\ Free
  \/ (\E q \in {Arena} : BeaconCommit(c, q)) /\ Free
  \/ (\E f \in BeaconFields : BeaconFieldReset(c, f)) /\ Free
  \/ (\E k \in BeaconCapSyms(c, "n") : BeaconSym(c, "n", k)) /\ Free
  \/ (\E k \in BeaconCapSyms(c, "t") : BeaconSym(c, "t", k)) /\ Free
  \/ (\E k \in BeaconCapSyms(c, "c") : BeaconSym(c, "c", k)) /\ Free

NextBeaconCap == \E c \in {"ip1"} : BeaconCapCalls(c)

SpecBeaconCap == InitBeacon /\ [][NextBeaconCap]_vars

(* C11: in the beacon variant the buffers nBuf, tBuf and cBuf of every session
   are never longer than 24, 32 and 32 symbols: an append made at the cap is
   dropped. *)
C11_BeaconBuffersCapped ==
  \A c \in DOMAIN SESS :
    \A f \in BeaconFields : Len(SESS[c][BeaconBuf(f)]) <= BeaconCapOf(f)

(* C12: in the beacon variant, when a /ncommit, /tcommit or /ccommit is answered
   ok, the buffer of that field (nBuf, tBuf, cBuf) of the client's session is
   empty, so that a second commit with no append in between finds nothing to
   apply. *)
C12_CommitEmptiesBuffer ==
  [][\A c \in IPs : \A f \in BeaconFields :
       ( /\ variant = "beacon"
         /\ reply'.ip = c /\ reply'.op = BeaconCommitOp(f) /\ reply'.ans = "ok"
         /\ c \in DOMAIN SESS' )
       => SESS'[c][BeaconBuf(f)] = <<>>]_vars

-----------------------------------------------------------------------------
(* SpecDbFail: one client of the strict variant and a store that may reject any
   query *)

DbInputs ==
  [fp |-> {IdentityA}, name |-> {Hero}, time |-> {WordOf(5000)}, beans |-> {WordOf(3)}]

\* the client sends one field at a time: it starts a field when nothing it sent
\* for another field is left uncommitted
OneAtATime(c, f) == \A g \in Fields \ {f} : AppendedOf(c)[g] = <<>>

DbCalls(c, in) ==
  \/ Idle(c) /\ (\E k \in NextSyms(c, "fp", in.fp) : B(c, k)) /\ Free
  \/ Idle(c) /\ OneAtATime(c, "name") /\ NReset(c) /\ Free
  \/ Idle(c) /\ (\E k \in NextSyms(c, "name", in.name) : NSym(c, k)) /\ Free
  \/ Idle(c) /\ Sent(c, "name", in.name) /\ NCommit(c) /\ Free
  \/ Idle(c) /\ OneAtATime(c, "time") /\ TReset(c) /\ Free
  \/ Idle(c) /\ (\E k \in NextSyms(c, "time", in.time) : TSym(c, k)) /\ Free
  \/ Idle(c) /\ Sent(c, "time", in.time) /\ TCommit(c) /\ Free
  \/ Idle(c) /\ OneAtATime(c, "beans") /\ GReset(c) /\ Free
  \/ Idle(c) /\ (\E k \in NextSyms(c, "beans", in.beans) : GSym(c, k)) /\ Free
  \/ Idle(c) /\ Sent(c, "beans", in.beans) /\ GCommit(c) /\ Free

\* the store answers the field commit of c that is in flight
DbStore(c) ==
  \/ NCommitUpsert(c) /\ Free
  \/ NCommitSelect(c) /\ Free
  \/ NCommitUpdate(c) /\ Free
  \/ NCommitDelete(c) /\ Free
  \/ TCommitDone(c) /\ Free
  \/ GCommitDone(c) /\ Free

NextDbFail ==
  \E c \in {"ip1"} : \/ DbCalls(c, DbInputs)
                     \/ DbStore(c)
                     \/ DbFail(c) /\ Free

SpecDbFail == Init /\ [][NextDbFail]_vars

\* the field a commit request is about
FieldOf(op) == CASE op = "ncommit" -> "name" [] op = "tcommit" -> "time"
                 [] op = "gcommit" -> "beans"

\* a query of a commit of c is rejected: the answer is db, and the buffer and the
\* Active flag of the field are what the commit found
FailureKeepsBuffer ==
  \A c \in DOMAIN pending :
    (reply'.ip = c /\ reply'.ans = "db" /\ pending[c].op # "commit")
      => LET f == FieldOf(pending[c].op)
         IN /\ StatusOf(reply'.ans) = 500
            /\ reply'.op = pending[c].op
            /\ c \in DOMAIN SESSIONS'
            /\ SESSIONS'[c][BufOf(f)] = pending[c].sess[BufOf(f)]
            /\ SESSIONS'[c][BufOf(f)] # <<>>
            /\ SESSIONS'[c][ActiveOf(f)] = pending[c].sess[ActiveOf(f)]
            /\ SESSIONS'[c][ActiveOf(f)]

\* the same commit call, made right after its failure, is accepted and carries
\* the key and the value of the one that failed
RetryWritesSame ==
  \A c \in DOMAIN failed :
    (reply = R(c, failed[c].op, "db") /\ failed[c].op # "commit"
       /\ Arrives(c, failed[c].op))
      => /\ reply'.ans = "wait"
         /\ c \in DOMAIN pending'
         /\ pending'[c].uid = failed[c].uid
         /\ pending'[c].name = failed[c].name
         /\ pending'[c].val = failed[c].val

(* C13: when a query of a /ncommit, /tcommit or /gcommit of the strict variant
   is rejected by the store, the call is answered db with status 500, the
   session's buffer and Active flag for that field are what they were before the
   call, and the same commit call repeated at once writes the same value. *)
C13_FailureKeepsBuffer == [][FailureKeepsBuffer /\ RetryWritesSame]_vars

\* a /tcommit failed, was repeated, and the repeat wrote 5000
C13_Witness ==
  /\ reply = R("ip1", "tcommit", "ok")
  /\ "ip1" \in DOMAIN failed
  /\ failed["ip1"].op = "tcommit"
  /\ failed["ip1"].val = Num(5000)
  /\ KeyA \in DOMAIN scores
  /\ scores[KeyA].total_ms = Num(5000)
  /\ tHist[KeyA].all = {Num(5000)}

-----------------------------------------------------------------------------
(* The pack variant (src/unnamed/part_004): one buffer per session holds
   "<NAME>#<MS>", and the table scores_simple has display_name as its key *)

\* the 64 symbols and "#"
ALPHABET004 == ALPHABET \o <<"#">>

PACK_CAP == 81

DecimalDigits == <<"0","1","2","3","4","5","6","7","8","9">>

\* the value of a decimal digit, -1 for any other character
DigitValue(ch) ==
  IF \E i \in 1..10 : DecimalDigits[i] = ch
    THEN (CHOOSE i \in 1..10 : DecimalDigits[i] = ch) - 1
    ELSE -1

\* raw.indexOf("#"), counted from 0; -1 when there is none
IndexOfHash(raw) ==
  IF \E i \in 1..Len(raw) : raw[i] = "#"
    THEN (CHOOSE i \in 1..Len(raw) : raw[i] = "#" /\ \A j \in 1..(i - 1) : raw[j] # "#") - 1
    ELSE -1

RECURSIVE DecimalFrom(_, _)
\* Number(str.replace(/[^0-9]/g, "")), from value v: the characters that are not
\* digits are dropped (exact here; a double in the code, exact below 2^53)
DecimalFrom(str, v) ==
  IF str = <<>> THEN v
  ELSE IF DigitValue(str[1]) < 0 THEN DecimalFrom(Tail(str), v)
  ELSE DecimalFrom(Tail(str), Canon(Rev(MulSmallRev(Rev(v), 10, DigitValue(str[1])))))

\* cleanName of part_004: white space is collapsed and trimmed, 24 characters kept
cleanName004(s) ==
  IF s = <<>> THEN Player ELSE Take(Trim(Squeeze(s)), 24)

ensureSess004(ip) ==
  IF ip \in DOMAIN SESSIONS THEN [SESSIONS[ip] EXCEPT !.lastSeen = now]
  ELSE [packBuf |-> <<>>, lastSeen |-> now]

\* a row of scores_simple
Row004(name, ms) == [display_name |-> name, total_ms |-> ms, updated_at |-> now]

\* what no handler of part_004 touches
PackFrame ==
  UNCHANGED <<SESS, appended, tHist, gHist, nHist, hello, now, lastSweep, variant, board>>

\* GET /preset
Preset004(c) ==
  /\ SESSIONS' = Put(SESSIONS, c, [ensureSess004(c) EXCEPT !.packBuf = <<>>])
  /\ reply' = R(c, "preset", "ok")
  /\ UNCHANGED <<scores, pending, failed>>
  /\ PackFrame

\* GET /p/:k
P004(c, k) ==
  /\ IF ~(k >= 0 /\ k < Len(ALPHABET004))
       THEN reply' = R(c, "p", "bad") /\ UNCHANGED SESSIONS
       ELSE LET s == ensureSess004(c)
            IN /\ SESSIONS' = Put(SESSIONS, c,
                      [s EXCEPT !.packBuf = IF Len(@) < PACK_CAP
                                              THEN Append(@, ALPHABET004[k + 1])
                                              ELSE @])
               /\ reply' = R(c, "p", "ok")
  /\ UNCHANGED <<scores, pending, failed>>
  /\ PackFrame

\* GET /pcommit, up to the await: the buffer is emptied before the pack is parsed
PCommit004(c) ==
  /\ IF c \notin DOMAIN SESSIONS \/ SESSIONS[c].packBuf = <<>>
       THEN /\ reply' = R(c, "pcommit", "nopack")
            /\ UNCHANGED <<SESSIONS, pending>>
       ELSE LET s == SESSIONS[c]
                raw == s.packBuf
                idx == IndexOfHash(raw)
                name == cleanName004(SubSeq(raw, 1, idx))
                total_ms == DecimalFrom(SubSeq(raw, idx + 2, Len(raw)), <<>>)
            IN /\ SESSIONS' = [SESSIONS EXCEPT ![c] = [@ EXCEPT !.packBuf = <<>>]]
               /\ IF idx < 0
                    THEN reply' = R(c, "pcommit", "badpack") /\ UNCHANGED pending
                    ELSE /\ pending' = Put(pending, c,
                              Req("pcommit", name, name, total_ms, NULL, s))
                         /\ reply' = R(c, "pcommit", "wait")
  /\ UNCHANGED <<scores, failed>>
  /\ PackFrame

\* INSERT INTO scores_simple ... ON CONFLICT (display_name) DO UPDATE SET total_ms = EXCLUDED.total_ms
UpsertSimple(sc, name, ms) == Put(sc, name, Row004(name, ms))

\* /pcommit: the upsert has run; ok is sent
PCommitDone004(c) ==
  /\ InFlight(c, "pcommit", 1)
  /\ scores' = UpsertSimple(scores, pending[c].name, pending[c].val)
  /\ pending' = Drop(pending, {c})
  /\ reply' = R(c, "pcommit", "ok")
  /\ UNCHANGED <<SESSIONS, failed>>
  /\ PackFrame

\* /pcommit: pool.query rejects; the catch block answers db
PCommitFail004(c) ==
  /\ InFlight(c, "pcommit", 1)
  /\ pending' = Drop(pending, {c})
  /\ reply' = R(c, "pcommit", "db")
  /\ failed' = Put(failed, c, [op |-> pending[c].op, uid |-> pending[c].uid,
                               name |-> pending[c].name, val |-> pending[c].val])
  /\ UNCHANGED <<SESSIONS, scores>>
  /\ PackFrame

(* SpecPack: one client of the pack variant and a store that may reject the
   query *)

\* the packs the client sends: two well-formed ones and one without "#"
Packs ==
  { <<"H","i","#","7","0">>, <<"H","i","#","5">>, <<"Y","o","#","7">>, <<"H","i">> }

\* the index of a character in the alphabet of part_004
aIndex004(ch) == (CHOOSE i \in 1..Len(ALPHABET004) : ALPHABET004[i] = ch) - 1

\* the indices that keep packBuf a prefix of a pack
PackNext(c) ==
  LET b == SessBuf(c, "packBuf")
  IN {aIndex004(w[Len(b) + 1]) : w \in {x \in Packs : Len(b) < Len(x) /\ IsPrefix(b, x)}}

\* an index outside the alphabet of part_004
BadK004 == 65

PackCalls(c) ==
  \/ Idle(c) /\ Preset004(c) /\ Free
  \/ Idle(c) /\ (\E k \in PackNext(c) \cup {BadK004} : P004(c, k)) /\ Free
  \/ Idle(c) /\ SessBuf(c, "packBuf") \in Packs \cup {<<>>} /\ PCommit004(c) /\ Free
  \/ PCommitDone004(c) /\ Free
  \/ PCommitFail004(c) /\ Free

InitPack ==
  /\ InitCommon
  /\ variant = "part_004"
  /\ now = 0
  /\ script = <<>>
  /\ pc = 0

NextPack == \E c \in {"ip1"} : PackCalls(c)

SpecPack == InitPack /\ [][NextPack]_vars

(* C14: when a /pcommit of the pack variant is answered db (the store rejected
   the write) or badpack, the session's packBuf still holds the symbols it held
   before the call. *)
C14_PackKeptOnFailure ==
  [][\A c \in IPs :
       (reply'.ip = c /\ reply'.op = "pcommit" /\ reply'.ans \in {"db", "badpack"})
         => /\ c \in DOMAIN SESSIONS'
            /\ SESSIONS'[c].packBuf =
                 (IF c \in DOMAIN pending THEN pending[c].sess.packBuf
                  ELSE SESSIONS[c].packBuf)]_vars

-----------------------------------------------------------------------------
(* SpecTear: one client of the strict variant whose resets and symbols may
   arrive while a commit of the same client awaits the store *)

TearCalls(c, in) ==
  \/ Idle(c) /\ (\E k \in NextSyms(c, "fp", in.fp) : B(c, k)) /\ Free
  \/ OneAtATime(c, "name") /\ NReset(c) /\ Free
  \/ (\E k \in NextSyms(c, "name", in.name) : NSym(c, k)) /\ Free
  \/ Idle(c) /\ Sent(c, "name", in.name) /\ NCommit(c) /\ Free
  \/ OneAtATime(c, "time") /\ TReset(c) /\ Free
  \/ (\E k \in NextSyms(c, "time", in.time) : TSym(c, k)) /\ Free
  \/ Idle(c) /\ Sent(c, "time", in.time) /\ TCommit(c) /\ Free
  \/ OneAtATime(c, "beans") /\ GReset(c) /\ Free
  \/ (\E k \in NextSyms(c, "beans", in.beans) : GSym(c, k)) /\ Free
  \/ Idle(c) /\ Sent(c, "beans", in.beans) /\ GCommit(c) /\ Free

NextTear == \E c \in {"ip1"} : TearCalls(c, DbInputs) \/ DbStore(c)

SpecTear == Init /\ [][NextTear]_vars

(* C15: when a reset and symbols of a field were processed, each answered ok,
   while a commit of that field by the same client was awaiting the store, the
   step that finishes the commit leaves those symbols in the buffer and the
   field's Active flag true. *)
C15_NotTorn ==
  [][\A c \in IPs : \A f \in Fields :
       ( /\ c \in DOMAIN pending /\ pending[c].op = CommitOp(f)
         /\ c \in DOMAIN SESSIONS
         /\ reply = R(c, SymOp(f), "ok")
         /\ ~IsPrefix(pending[c].sess[BufOf(f)], SESSIONS[c][BufOf(f)])
         /\ reply' = R(c, CommitOp(f), "ok") )
       => /\ c \in DOMAIN SESSIONS'
          /\ SESSIONS'[c][BufOf(f)] = SESSIONS[c][BufOf(f)]
          /\ SESSIONS'[c][ActiveOf(f)]]_vars

-----------------------------------------------------------------------------
(* SpecMerge: two clients of the strict variant with different fingerprints play
   a script of calls one after the other, no call being sent while another is in
   flight *)

IdentityB == <<"B","B","B","B","B","B","B","B">>

KeyB == UserIdHash(IdentityB)

\* a + 1
NumSucc(a) == Canon(Rev(MulSmallRev(Rev(a), 1, 1)))

\* the client's encoder: the word that decodes to the numeral d
NumWord(d) == [i \in 1..Len(d) |-> ALPHABET[d[i] + 1]]

\* the calls of a script, each with the client that makes it
By(c, calls) ==
  [i \in 1..Len(calls) |-> [ip |-> c, op |-> calls[i].op, k |-> calls[i].k, q |-> calls[i].q]]

SendTimeWord(word) ==
  <<Call("treset", 0, <<>>)>> \o SymCalls("t", word) \o <<Call("tcommit", 0, <<>>)>>

SendBeansWord(word) ==
  <<Call("greset", 0, <<>>)>> \o SymCalls("g", word) \o <<Call("gcommit", 0, <<>>)>>

SendWorld(world) == <<Call("commit", 0, world)>>

\* the times the second client commits: 5000, and one above MAX_MS
OtherTimes == {WordOf(5000), NumWord(NumSucc(MAX_MS))}

\* the times the first client commits: 3000, and MAX_MS
OwnTimes == {WordOf(3000), NumWord(MAX_MS)}

\* the bean counts the second client commits: 3, and one above MAX_BEANS
OtherBeans == {WordOf(3), NumWord(NumSucc(MAX_BEANS))}

\* what the second client sends: its row gets a name, beans and a time
OtherRecords ==
  {SymCalls("b", IdentityB) \o SendName(name) \o SendBeansWord(g) \o SendTimeWord(w) :
     name \in {Hero, Champ}, g \in OtherBeans, w \in OtherTimes}

\* what the first client sends: it commits the name Hero, with or without a row,
\* a time and beans of its own; or a time, the name Champ and then its world
OwnRecords ==
  {SymCalls("b", IdentityA) \o SendName(Hero)}
    \cup {SymCalls("b", IdentityA) \o SendWorld(Arena) \o SendTimeWord(w) \o SendName(Hero) :
            w \in OwnTimes}
    \cup {SymCalls("b", IdentityA) \o SendTimeWord(w) \o SendBeans(7) \o SendName(Hero) :
            w \in OwnTimes}
    \cup {SymCalls("b", IdentityA) \o SendName(Champ) \o SendTimeWord(w) \o SendName(Hero) :
            w \in OwnTimes}
    \cup {SymCalls("b", IdentityA) \o SendTimeWord(WordOf(3000)) \o SendName(Champ)
             \o SendWorld(Arena)}

MergeScripts == {By("ip2", o) \o By("ip1", k) : o \in OtherRecords, k \in OwnRecords}

\* client c makes the next call of the script
PlayOf(c) ==
  /\ Idle(c)
  /\ pc <= Len(script)
  /\ script[pc].ip = c
  /\ Do(c, script[pc])
  /\ pc' = pc + 1
  /\ UNCHANGED script

InitMerge ==
  /\ InitCommon
  /\ variant = "strict"
  /\ now = 0
  /\ script \in MergeScripts
  /\ pc = 1

NextMerge == \E c \in IPs : (pending = EmptyMap /\ PlayOf(c)) \/ Store(c)

SpecMerge == InitMerge /\ [][NextMerge]_vars

\* the rows of table sc with display_name name, and the row of key uid
SameNameOrKey(sc, name, uid) ==
  {k \in DOMAIN sc : sc[k].display_name = name \/ k = uid}

(* C16: with no other request in flight, when a /ncommit of name X by a session
   with key K is answered ok, K is the only row with display_name X, and its
   total_ms and beans are the largest total_ms and the largest beans among K's
   row and the rows that had display_name X just before the call. *)
C16_MergeKeepsBest ==
  [][\A c \in IPs :
       ( /\ variant = "strict"
         /\ DOMAIN pending = {c}
         /\ pending[c].op = "ncommit"
         /\ reply' = R(c, "ncommit", "ok") )
       => LET X == pending[c].name
              K == pending[c].uid
              before == pending[c].db
              olds == SameNameOrKey(before, X, K)
          IN /\ {k \in DOMAIN scores' : scores'[k].display_name = X} = {K}
             /\ scores'[K].total_ms = SetMax({before[k].total_ms : k \in olds} \cup {<<>>})
             /\ scores'[K].beans = SetMax({before[k].beans : k \in olds} \cup {<<>>})]_vars

\* the first client committed 3000 and no beans of its own, then the name Hero:
\* its row now holds the 5000 and the 3 beans of the second client's row, which
\* is gone
C16_Witness ==
  /\ reply = R("ip1", "ncommit", "ok")
  /\ DOMAIN scores = {KeyA}
  /\ scores[KeyA].display_name = Hero
  /\ scores[KeyA].total_ms = Num(5000)
  /\ scores[KeyA].beans = Num(3)
  /\ KeyA \in DOMAIN tHist /\ tHist[KeyA].all = {Num(3000)}
  /\ KeyB \in DOMAIN tHist /\ tHist[KeyB].all = {Num(5000)}
  /\ KeyA \notin DOMAIN gHist

(* SpecRace: the same scripts, but a client sends its next call as soon as its
   own last call was answered, whatever the other client has in flight *)

NextRace == \E c \in IPs : PlayOf(c) \/ Store(c)

SpecRace == InitMerge /\ [][NextRace]_vars

(* C17: the merge of duplicates made by /ncommit loses no committed score,
   however its queries interleave with a /tcommit or /gcommit of another
   session whose row has the same display_name: once every request has been
   answered, each total_ms written by a /tcommit answered ok is at most the
   largest total_ms of the table, and each beans count written by a /gcommit
   answered ok is at most the largest beans of the table. *)
C17_NoScoreLost ==
  (variant = "strict" /\ pending = EmptyMap) =>
    /\ \A uid \in DOMAIN tHist : \A v \in tHist[uid].all :
         \E k \in DOMAIN scores : NumLeq(v, scores[k].total_ms)
    /\ \A uid \in DOMAIN gHist : \A v \in gHist[uid].all :
         \E k \in DOMAIN scores : NumLeq(v, scores[k].beans)

\* a natural number: a numeral whose digits are all in 0..63 (null is not one)
IsNatural(d) == \A i \in 1..Len(d) : d[i] \in 0..63

(* C20: in every reachable state of the strict variant every row of scores has
   0 <= total_ms <= MAX_MS and 0 <= beans <= MAX_BEANS, whatever /commit,
   /ncommit (with its merge of duplicates), /tcommit and /gcommit calls the
   clients made. *)
C20_RowsInRange ==
  variant = "strict" =>
    \A k \in DOMAIN scores :
      /\ IsNatural(scores[k].total_ms) /\ NumLeq(scores[k].total_ms, MAX_MS)
      /\ IsNatural(scores[k].beans) /\ NumLeq(scores[k].beans, MAX_BEANS)

\* the first client committed MAX_MS and merged the row of the second, whose
\* commits of MAX_MS + 1 and MAX_BEANS + 1 were refused
C20_Witness ==
  /\ Played
  /\ reply = R("ip1", "ncommit", "ok")
  /\ DOMAIN scores = {KeyA}
  /\ scores[KeyA].total_ms = MAX_MS
  /\ KeyB \in DOMAIN nHist
  /\ KeyB \notin DOMAIN tHist
  /\ KeyB \notin DOMAIN gHist

-----------------------------------------------------------------------------
(* The name commit of the variant of src/unnamed/part_002 *)

\* GET /nreset
NReset002(c) ==
  /\ variant = "part_002"
  /\ SESSIONS' = Put(SESSIONS, c, [ensureSess002(c) EXCEPT !.nameBuf = <<>>])
  /\ reply' = R(c, "nreset", "ok")
  /\ UNCHANGED <<scores, pending, tHist>>
  /\ OtherFrame

\* GET /n/:k
N002(c, k) ==
  /\ variant = "part_002"
  /\ IF ~(k >= 0 /\ k < 64)
       THEN reply' = R(c, "n", "bad") /\ UNCHANGED SESSIONS
       ELSE LET s == ensureSess002(c)
            IN IF Len(s.fpBuf) < 8
                 THEN SESSIONS' = Put(SESSIONS, c, s) /\ reply' = R(c, "n", "noid")
                 ELSE /\ SESSIONS' = Put(SESSIONS, c,
                           [s EXCEPT !.nameBuf = AppendCapped(@, 24, k)])
                      /\ reply' = R(c, "n", "ok")
  /\ UNCHANGED <<scores, pending, tHist>>
  /\ OtherFrame

\* GET /ncommit, up to the first await
NCommit002(c) ==
  /\ variant = "part_002"
  /\ IF c \notin DOMAIN SESSIONS \/ Len(SESSIONS[c].fpBuf) < 8
        \/ SESSIONS[c].nameBuf = <<>>
       THEN reply' = R(c, "ncommit", "noid") /\ UNCHANGED pending
       ELSE LET s == SESSIONS[c]
            IN /\ pending' = Put(pending, c,
                      Req("ncommit", UserIdHash(s.fpBuf), s.nameBuf, <<>>, NULL, s))
               /\ reply' = R(c, "ncommit", "wait")
  /\ UNCHANGED <<SESSIONS, scores, tHist>>
  /\ OtherFrame

\* /ncommit: the DELETE of the rows of other keys with that name has run; the
\* upsert is sent
NCommitDelete002(c) ==
  /\ variant = "part_002"
  /\ InFlight(c, "ncommit", 1)
  /\ scores' = DeleteDuplicates(scores, pending[c].name, pending[c].uid)
  /\ pending' = [pending EXCEPT ![c] = [@ EXCEPT !.stage = 2]]
  /\ reply' = R(c, "ncommit", "wait")
  /\ UNCHANGED <<SESSIONS, tHist>>
  /\ OtherFrame

\* /ncommit: the upsert has run; the buffer is cleared and ok is sent
NCommitDone002(c) ==
  /\ variant = "part_002"
  /\ InFlight(c, "ncommit", 2)
  /\ scores' = UpsertName(scores, pending[c].uid, pending[c].name)
  /\ SESSIONS' = IF pending[c].detached \/ c \notin DOMAIN SESSIONS THEN SESSIONS
                 ELSE [SESSIONS EXCEPT ![c] = [@ EXCEPT !.nameBuf = <<>>,
                                                       !.lastSeen = now]]
  /\ pending' = Drop(pending, {c})
  /\ reply' = R(c, "ncommit", "ok")
  /\ UNCHANGED tHist
  /\ OtherFrame

(* SpecDup002: two clients of the variant of part_002 with different
   fingerprints play a script of calls one after the other *)

\* the handler of one call, in the variant of part_002
Do002(c, call) ==
  CASE call.op = "b" -> B002(c, call.k)
    [] call.op = "nreset" -> NReset002(c)
    [] call.op = "n" -> N002(c, call.k)
    [] call.op = "ncommit" -> NCommit002(c)
    [] call.op = "treset" -> TReset002(c)
    [] call.op = "t" -> T002(c, call.k)
    [] call.op = "tcommit" -> TCommit002(c)

\* the second client names its row and commits 5000; the first commits the name
\* Hero, with or without a time of its own
DupScripts ==
  {By("ip2", SymCalls("b", IdentityB) \o SendName(name) \o SendTime(5000))
     \o By("ip1", SymCalls("b", IdentityA) \o own \o SendName(Hero)) :
     name \in {Hero, Champ}, own \in {<<>>, SendTime(3000), SendTime(9000)}}

PlayOf002(c) ==
  /\ pending = EmptyMap
  /\ pc <= Len(script)
  /\ script[pc].ip = c
  /\ Do002(c, script[pc])
  /\ pc' = pc + 1
  /\ UNCHANGED script

Store002(c) ==
  \/ NCommitDelete002(c) /\ Free
  \/ NCommitDone002(c) /\ Free
  \/ TCommitDone002(c) /\ Free

InitDup002 ==
  /\ InitCommon
  /\ variant = "part_002"
  /\ now = 0
  /\ script \in DupScripts
  /\ pc = 1

NextDup002 == \E c \in IPs : PlayOf002(c) \/ Store002(c)

SpecDup002 == InitDup002 /\ [][NextDup002]_vars

(* C18: in the variant of part_002, when a /ncommit of name X at key K that
   found a row with display_name X under another key is answered ok, that row
   is deleted and row K holds a total_ms and a beans_count at least as large as
   that row's. *)
C18_DuplicateMerged ==
  [][\A c \in IPs :
       ( /\ variant = "part_002"
         /\ c \in DOMAIN pending
         /\ pending[c].op = "ncommit"
         /\ reply' = R(c, "ncommit", "ok") )
       => LET X == pending[c].name
              K == pending[c].uid
              before == pending[c].db
          IN \A k \in DOMAIN before :
               (k # K /\ before[k].display_name = X)
                 => /\ k \notin DOMAIN scores'
                    /\ K \in DOMAIN scores'
                    /\ NumLeq(before[k].total_ms, scores'[K].total_ms)
                    /\ NumLeq(before[k].beans, scores'[K].beans)]_vars

-----------------------------------------------------------------------------
(* The leaderboard queries: GET /leaderboard.txt of the strict variant
   (src/server.js 484-513) and queryTopRows of the push variant
   (src/server.js 130-165).  The handler awaits one SELECT and writes no state:
   it is one step, taken when the store runs the query.  The order of rows that
   tie on both columns is left to the store: the query yields a set of possible
   results. *)

\* faulty variant: ORDER BY total_ms DESC only
SortsBefore_TotalOnly(a, b) == NumLeq(b.total_ms, a.total_ms)

\* ORDER BY total_ms DESC, beans DESC: row a may come before row b
SortsBefore(a, b) ==
  \/ NumLess(b.total_ms, a.total_ms)
  \/ a.total_ms = b.total_ms /\ NumLeq(b.beans, a.beans)

\* the keys of ks whose row may come first
FirstOf(sc, ks) == {k \in ks : \A x \in ks : SortsBefore(sc[k], sc[x])}

RECURSIVE OrderBy(_, _)
\* the orders in which the store may return the rows with keys ks
OrderBy(sc, ks) ==
  IF ks = {} THEN {<<>>}
  ELSE UNION {{<<k>> \o rest : rest \in OrderBy(sc, ks \ {k})} : k \in FirstOf(sc, ks)}

\* WHERE world_id=$1 (a NULL world_id matches nothing)
WhereWorld(sc, world) == {k \in DOMAIN sc : sc[k].world_id = world}

\* ... ORDER BY total_ms DESC, beans DESC LIMIT n, over the rows with keys ks
SelectTop(sc, ks, n) == {Take(s, n) : s \in OrderBy(sc, ks)}

\* Math.min(parseInt(req.query.limit || "50", 10), 2000); 0 stands for no parameter
LimitOf(q) ==
  LET n == IF q = 0 THEN 50 ELSE q
  IN IF n < 2000 THEN n ELSE 2000

\* queryTopRows(limit, world): "if (world)" adds the WHERE clause
queryTopRows(sc, limit, world) ==
  SelectTop(sc, IF world # <<>> THEN WhereWorld(sc, world) ELSE DOMAIN sc, limit)

\* SELECT display_name, total_ms, beans
Selected(row) ==
  [display_name |-> row.display_name, total_ms |-> row.total_ms, beans |-> row.beans]

\* the answer to a leaderboard request: the rows sent, with the request and the
\* keys of the rows as history
Answered(c, q, world, keys) ==
  /\ board' = [asked |-> q, world |-> world, keys |-> keys,
               rows |-> [i \in 1..Len(keys) |-> Selected(scores[keys[i]])]]
  /\ reply' = R(c, "leaderboard", "ok")
  /\ UNCHANGED <<SESSIONS, SESS, scores, now, lastSweep, pending, appended,
                 tHist, gHist, nHist, hello, variant, failed>>

\* GET /leaderboard.txt of the strict variant; q is the parameter limit and world
\* the parameter world_id ("" when absent)
LeaderboardTxt(c, q, world) ==
  /\ variant = "strict"
  /\ LET limit == LimitOf(q)
     IN IF world # <<>>
          THEN \E keys \in SelectTop(scores, WhereWorld(scores, world), limit) :
                 Answered(c, q, world, keys)
          ELSE \E keys \in SelectTop(scores, DOMAIN scores, limit) :
                 Answered(c, q, world, keys)

\* GET /leaderboard.txt of the push variant, through queryTopRows
PushLeaderboardTxt(c, q, world) ==
  /\ variant = "push"
  /\ \E keys \in queryTopRows(scores, LimitOf(q), world) : Answered(c, q, world, keys)

(* SpecBoard: a table of up to three rows, and leaderboard requests *)

KeyC == UserIdHash(<<"C","C","C","C","C","C","C","C">>)

BoardKeys == {KeyA, KeyB, KeyC}

\* the rows a key may hold
BoardRows(k) ==
  {Row(DefaultName(k), w, ms, b) :
     w \in {Arena, NULL}, ms \in {Num(5000), Num(9000)}, b \in {Num(0), Num(3)}}

\* the tables: any rows under any of the keys
BoardTables ==
  UNION {[ks -> UNION {BoardRows(k) : k \in ks}] : ks \in SUBSET BoardKeys}

\* the limits asked for
BoardLimits == {1, 2, 2000}

\* the world filters asked for: none, a world with rows, a world without
BoardWorlds == {<<>>, Arena, DefaultWorld}

InitBoard ==
  /\ SESSIONS = EmptyMap
  /\ SESS = EmptyMap
  /\ lastSweep = 0
  /\ pending = EmptyMap
  /\ reply = NoReply
  /\ appended = [x \in IPs |-> NoAppended]
  /\ tHist = EmptyMap
  /\ gHist = EmptyMap
  /\ nHist = EmptyMap
  /\ hello = [x \in IPs |-> 0]
  /\ failed = EmptyMap
  /\ board = NoBoard
  /\ variant \in {"strict", "push"}
  /\ now = 0
  /\ script = <<>>
  /\ pc = 0
  /\ scores \in {sc \in BoardTables : \A k \in DOMAIN sc : sc[k] \in BoardRows(k)}

NextBoard ==
  \E c \in {"ip1"} : \E q \in BoardLimits : \E world \in BoardWorlds :
    \/ LeaderboardTxt(c, q, world) /\ Free
    \/ PushLeaderboardTxt(c, q, world) /\ Free

SpecBoard == InitBoard /\ [][NextBoard]_vars

\* the keys of the rows a request with filter world is about
Matching(world) ==
  IF world = <<>> THEN DOMAIN scores
  ELSE {k \in DOMAIN scores : scores[k].world_id = world}

\* row a is at least row b: a larger total_ms, or the same and beans not smaller
AtLeast(a, b) ==
  \/ NumLess(b.total_ms, a.total_ms)
  \/ a.total_ms = b.total_ms /\ ~NumLess(a.beans, b.beans)

(* C19: a leaderboard answer, for a limit from 1 to 2000 and an optional world
   filter, holds min(limit, number of matching rows) different matching rows,
   in descending order of total_ms and then of beans, none of the rows left out
   being above one that is sent; with a filter only rows of that world are
   sent.  With totals 5000 and 9000 in Arena, limit 1 and world Arena give the
   9000 row only. *)
C19_TopRows ==
  (board.asked >= 1 /\ board.asked <= 2000) =>
    LET M == Matching(board.world)
        keys == board.keys
        n == Len(keys)
    IN /\ n = (IF board.asked < Cardinality(M) THEN board.asked ELSE Cardinality(M))
       /\ Len(board.rows) = n
       /\ \A i \in 1..n :
            /\ keys[i] \in M
            /\ board.rows[i].display_name = scores[keys[i]].display_name
            /\ board.rows[i].total_ms = scores[keys[i]].total_ms
            /\ board.rows[i].beans = scores[keys[i]].beans
       /\ \A i, j \in 1..n : i < j =>
            keys[i] # keys[j] /\ AtLeast(scores[keys[i]], scores[keys[j]])
       /\ \A k \in M \ {keys[i] : i \in 1..n} :
            \A i \in 1..n : AtLeast(scores[keys[i]], scores[k])

\* rows of 5000 and 9000 in Arena, a third row outside it: limit 1 with world
\* Arena was answered with the 9000 row
C19_Witness ==
  /\ variant = "strict"
  /\ DOMAIN scores = BoardKeys
  /\ scores[KeyA].world_id = Arena /\ scores[KeyA].total_ms = Num(5000)
  /\ scores[KeyB].world_id = Arena /\ scores[KeyB].total_ms = Num(9000)
  /\ scores[KeyC].world_id = NULL /\ scores[KeyC].total_ms = Num(9000)
  /\ scores[KeyC].beans = Num(3)
  /\ board.asked = 1 /\ board.world = Arena
  /\ Len(board.rows) = 1
  /\ board.rows[1].total_ms = Num(9000)
  /\ board.rows[1].display_name = DefaultName(KeyB)

-----------------------------------------------------------------------------
(* C21: a /tcommit (a /gcommit) that passes the guard of its handler and whose
   buffer decodes, by base-64 positional accumulation, to a value above MAX_MS
   (MAX_BEANS) is sent to the store with the value MAX_MS (MAX_BEANS): it is
   not refused. *)
C21_SaturatesAtCap ==
  [][\A c \in IPs :
       /\ ( /\ Arrives(c, "tcommit")
            /\ ~CommitRefused(c, "time")
            /\ NumLess(MAX_MS, DecodeFrom(SESSIONS[c].timeBuf, <<>>)) )
          => /\ reply'.ans = "wait"
             /\ pending'[c].val = MAX_MS
       /\ ( /\ Arrives(c, "gcommit")
            /\ ~CommitRefused(c, "beans")
            /\ NumLess(MAX_BEANS, DecodeFrom(SESSIONS[c].beansBuf, <<>>)) )
          => /\ reply'.ans = "wait"
             /\ pending'[c].val = MAX_BEANS]_vars

-----------------------------------------------------------------------------
(* SpecCodec002: one client of the variant of part_002 sends its fingerprint,
   /treset, one /t/:k per index of a sequence, and /tcommit *)

\* n indices 0
Zeros(n) == [i \in 1..n |-> 0]

\* the index sequences sent: short ones, ones with leading zeros, the digits of
\* the cap 1e13 and of its neighbours, sequences that fill the buffer of 32
\* symbols, and one of 33 indices
CodecWords ==
  LET cap == CAP_1E13
      below == NumMul(Num(9999999), 1000000)
  IN { <<>>, <<0>>, <<63>>, <<1, 0>>, <<0, 0, 1>>, <<1, 14, 8>>, <<63, 63, 63, 63, 63>>,
       cap, below, NumSucc(cap), <<63>> \o cap,
       Zeros(32 - Len(cap)) \o cap, Zeros(32 - Len(below)) \o below,
       Zeros(32 - Len(cap)) \o NumSucc(cap),
       Zeros(33 - Len(cap)) \o cap }

\* one call /t/:k per index
IndexCalls(op, ks) == [i \in 1..Len(ks) |-> Call(op, ks[i], <<>>)]

CodecScripts ==
  {By("ip1", SymCalls("b", IdentityA) \o <<Call("treset", 0, <<>>)>>
               \o IndexCalls("t", ks) \o <<Call("tcommit", 0, <<>>)>>) :
     ks \in CodecWords}

InitCodec002 ==
  /\ InitCommon
  /\ variant = "part_002"
  /\ now = 0
  /\ script \in CodecScripts
  /\ pc = 1

NextCodec002 == \E c \in {"ip1"} : PlayOf002(c) \/ (TCommitDone002(c) /\ Free)

SpecCodec002 == InitCodec002 /\ [][NextCodec002]_vars

\* the indices of the /t/:k calls of the script
IndicesSent ==
  LET ts == SelectSeq(script, LAMBDA x : x.op = "t")
  IN [i \in 1..Len(ts) |-> ts[i].k]

\* v * 64 + k, by long multiplication
TimesPlus(v, k) == Canon(Rev(MulSmallRev(Rev(v), 64, k)))

RECURSIVE ValueFrom(_, _)
\* v * 64^n + k1*64^(n-1) + ... + kn (no value if an index is outside 0..63)
ValueFrom(ks, v) ==
  IF ks = <<>> THEN v
  ELSE LET w == TimesPlus(v, ks[1])
       IN IF IsNatural(w) THEN ValueFrom(Tail(ks), w) ELSE Null

\* k1*64^(n-1) + ... + kn (the leading indices 0 add nothing to the sum)
ValueOf(ks) == ValueFrom(Canon(ks), <<>>)

RECURSIVE IntValueOf(_)
\* the same sum in machine integers, for at most 5 indices
IntValueOf(ks) ==
  IF ks = <<>> THEN 0
  ELSE IntValueOf(SubSeq(ks, 1, Len(ks) - 1)) * 64 + Last(ks)

(* C22: in the variant of part_002, for indices k1..kn in 0..63, n at most the
   cap 32 of the time buffer, whose base-64 value V = k1*64^(n-1) + ... + kn is
   at most the cap 1e13, the buffer after the n appends is ALPHABET[k1..kn] and
   the /tcommit decodes it to exactly V, which is what the row gets; and
   aIndex(ALPHABET[k]) = k for every k in 0..63. *)
C22_RoundTrip ==
  /\ \A k \in 0..63 : alphaIndex(ALPHABET[k + 1]) = k
  /\ LET ks == IndicesSent
         V == ValueOf(ks)
     IN ( /\ variant = "part_002"
          /\ Len(ks) <= 32
          /\ NumLeq(V, CAP_1E13)
          /\ "ip1" \in DOMAIN pending
          /\ pending["ip1"].op = "tcommit" )
        => /\ pending["ip1"].sess.timeBuf = [i \in 1..Len(ks) |-> ALPHABET[ks[i] + 1]]
           /\ decodeAlphaNum(pending["ip1"].sess.timeBuf, CAP_1E13) = V
           /\ pending["ip1"].val = V
           /\ Len(ks) <= 5 => pending["ip1"].val = Num(IntValueOf(ks))

\* 32 indices, 24 zeros and the 8 digits of 9999999000000, were sent and the
\* commit that decoded them is in flight
C22_Witness ==
  /\ variant = "part_002"
  /\ Len(IndicesSent) = 32
  /\ IndicesSent[1] = 0
  /\ "ip1" \in DOMAIN pending
  /\ pending["ip1"].op = "tcommit"
  /\ Len(pending["ip1"].sess.timeBuf) = 32
  /\ pending["ip1"].val = NumMul(Num(9999999), 1000000)

-----------------------------------------------------------------------------
(* SpecBeaconBad: one client of the beacon variant that sends, among its
   appends, the symbol index 64 *)

MaxBadLen == 2      \* symbols a client writes into nBuf, tBuf or cBuf (bad-index runs)

\* no buffer of the client holds the symbol "_" yet
NoUnderscore(c) ==
  \A f \in BeaconFields :
    \A i \in 1..Len(BeaconBufOf(c, f)) : BeaconBufOf(c, f)[i] # "_"

\* the indices the client may send next for a buffer that holds len symbols of at
\* most max: 0, and once the index 64
BadSyms(c, len, max) ==
  IF len >= max THEN {}
  ELSE {0} \cup (IF NoUnderscore(c) /\ \A i \in 1..Len(BeaconFp(c)) : BeaconFp(c)[i] # "_"
                   THEN {BadK} ELSE {})

BeaconBadCalls(c) ==
  \/ (\E k \in BadSyms(c, Len(BeaconFp(c)), 8) : BeaconB(c, k)) /\ Free
  \/ (\E q \in {Arena} : BeaconCommit(c, q)) /\ Free
  \/ (\E f \in BeaconFields : BeaconFieldReset(c, f)) /\ Free
  \/ (\E k \in BadSyms(c, Len(BeaconBufOf(c, "n")), MaxBadLen) : BeaconSym(c, "n", k)) /\ Free
  \/ (\E k \in BadSyms(c, Len(BeaconBufOf(c, "t")), MaxBadLen) : BeaconSym(c, "t", k)) /\ Free
  \/ (\E k \in BadSyms(c, Len(BeaconBufOf(c, "c")), MaxBadLen) : BeaconSym(c, "c", k)) /\ Free

NextBeaconBad == \E c \in {"ip1"} : BeaconBadCalls(c)

SpecBeaconBad == InitBeacon /\ [][NextBeaconBad]_vars

\* the step answers client c with an error and changes none of its buffers
BeaconRejected(c) ==
  /\ reply'.ip = c
  /\ reply'.ans # "ok"
  /\ c \in DOMAIN SESS' =>
       /\ SESS'[c].fpBuf = BeaconFp(c)
       /\ \A f \in BeaconFields : SESS'[c][BeaconBuf(f)] = BeaconBufOf(c, f)

(* C23: in the beacon variant an append /b/:k, /n/:k, /t/:k or /c/:k whose
   index k is outside 0..63 is answered with a client error and changes none of
   the session's buffers. *)
C23_BadIndexRejected ==
  [][\A c \in IPs : \A k \in {BadK} :
       /\ BeaconB(c, k) => BeaconRejected(c)
       /\ \A f \in BeaconFields : BeaconSym(c, f, k) => BeaconRejected(c)]_vars

-----------------------------------------------------------------------------
(* SpecTouch: one client of the strict variant, with calls that are refused,
   the world commit, the clock and the sweep *)

MaxTouchTicks == 4  \* clock ticks of a run with refused calls

TouchInputs == [fp |-> {IdentityA}, time |-> {WordOf(5000)}, bad |-> {BadK}]

TouchCalls(c, in) ==
  \/ Idle(c) /\ (\E k \in NextSyms(c, "fp", in.fp) \cup in.bad : B(c, k)) /\ Free
  \/ Idle(c) /\ TReset(c) /\ Free
  \/ Idle(c) /\ (\E k \in NextSyms(c, "time", in.time) \cup in.bad : TSym(c, k)) /\ Free
  \/ Idle(c) /\ TCommit(c) /\ Free
  \/ Idle(c) /\ (\E q \in {Arena} : Commit(c, q)) /\ Free
  \/ TCommitDone(c) /\ Free
  \/ CommitDone(c) /\ Free

NextTouch ==
  \/ \E c \in {"ip1"} : TouchCalls(c, TouchInputs)
  \/ Tick(TickMs, MaxTouchTicks) /\ Free
  \/ Sweep /\ Free

SpecTouch == Init /\ [][NextTouch]_vars

\* the append, reset and commit calls
TouchOps ==
  {"b", "n", "t", "g", "nreset", "treset", "greset",
   "ncommit", "tcommit", "gcommit", "commit"}

(* C24: in the strict variant, when an append, reset or commit call of a client
   that has a session is answered, whether ok or with an error, the session's
   lastSeen is the time of the answer; this holds for /commit and for commits
   answered noid or bad. *)
C24_CallTouches ==
  [][\A c \in IPs :
       ( /\ c \in DOMAIN SESSIONS
         /\ reply'.ip = c
         /\ reply'.op \in TouchOps
         /\ reply'.ans # "wait" )
       => /\ c \in DOMAIN SESSIONS'
          /\ SESSIONS'[c].lastSeen = now]_vars

-----------------------------------------------------------------------------
(* C25: in the strict variant no step takes a row away or lowers its total_ms
   or its beans: a key that has a row with total_ms v has, in every later
   state, a row with total_ms at least v (and beans likewise), also when
   another session commits the same display name. *)
C25_NeverRegresses ==
  [][variant = "strict" =>
       \A k \in DOMAIN scores :
         /\ k \in DOMAIN scores'
         /\ NumLeq(scores[k].total_ms, scores'[k].total_ms)
         /\ NumLeq(scores[k].beans, scores'[k].beans)]_vars

-----------------------------------------------------------------------------
(* SpecReplay: one client of the strict variant sends the sequence of one
   record, once or twice in a row; one call may be answered db, and the client
   then goes back to the start of the sequence, to the reset of the field of
   the failed call, or to the failed call itself *)

\* the records sent
ReplayRecords ==
  [name : {Hero, Champ}, ms : {5000, 3000}, n : {3}, world : {Arena}]

RecordCalls(r) == SendRecord(IdentityA, r.world, r.name, r.ms, r.n)

ReplayScripts ==
  UNION {{By("ip1", RecordCalls(r)), By("ip1", RecordCalls(r) \o RecordCalls(r))} :
           r \in ReplayRecords}

\* the record a script sends
RecordOf(s) ==
  CHOOSE r \in ReplayRecords :
    s \in {By("ip1", RecordCalls(r)), By("ip1", RecordCalls(r) \o RecordCalls(r))}

\* where the group of calls of call i begins: its reset, or the world commit
GroupStart(i) ==
  CHOOSE j \in 1..i :
    /\ script[j].op \in {"nreset", "treset", "greset", "commit"}
    /\ \A x \in (j + 1)..i : script[x].op \notin {"nreset", "treset", "greset", "commit"}

\* where the client resumes after call i failed
RestartPoints(i) == {1, GroupStart(i), i}

\* the call of c in flight is answered db; the client retries
FailAndRetry(c) ==
  /\ failed = EmptyMap
  /\ DbFail(c)
  /\ pc' \in RestartPoints(pc - 1)
  /\ UNCHANGED script

InitReplay ==
  /\ InitCommon
  /\ variant = "strict"
  /\ now = 0
  /\ script \in ReplayScripts
  /\ pc = 1

NextReplay == \E c \in {"ip1"} : PlayOf(c) \/ Store(c) \/ FailAndRetry(c)

SpecReplay == InitReplay /\ [][NextReplay]_vars

(* C26: when the sequence of one record (eight /b/:k, /commit?world=W, the name,
   the time and the beans, each reset, written and committed) has been played
   to its end, whether once, twice in a row, or with one call answered db and
   the sequence resumed after it, the store holds the one row of a single
   complete run: display_name, world_id, total_ms and beans of the record. *)
C26_ReplaySameStore ==
  (variant = "strict" /\ script # <<>> /\ script \in ReplayScripts /\ Played) =>
    LET r == RecordOf(script)
    IN /\ DOMAIN scores = {KeyA}
       /\ scores[KeyA].display_name = r.name
       /\ scores[KeyA].world_id = r.world
       /\ scores[KeyA].total_ms = Num(r.ms)
       /\ scores[KeyA].beans = Num(r.n)

\* the sequence was sent twice, a /tcommit was answered db on the way, and the
\* last call has been answered
C26_Witness ==
  /\ script = By("ip1", RecordCalls([name |-> Hero, ms |-> 5000, n |-> 3, world |-> Arena])
                          \o RecordCalls([name |-> Hero, ms |-> 5000, n |-> 3, world |-> Arena]))
  /\ Played
  /\ "ip1" \in DOMAIN failed
  /\ failed["ip1"].op = "tcommit"
  /\ reply = R("ip1", "gcommit", "ok")
  /\ scores[KeyA].total_ms = Num(5000)

-----------------------------------------------------------------------------
(* SpecArm: one client of the strict variant sends the reset, the symbols and
   the commit of one field, with the eight identity symbols before the reset,
   between the reset and the symbols, or after a first attempt; with or
   without the reset; and with symbols sent again after the commit *)

\* the symbols and the commit of field f, without its reset
SendUnarmed(f) ==
  CASE f = "name" -> SymCalls("n", Hero) \o <<Call("ncommit", 0, <<>>)>>
    [] f = "time" -> SymCalls("t", WordOf(5000)) \o <<Call("tcommit", 0, <<>>)>>
    [] f = "beans" -> SymCalls("g", WordOf(3)) \o <<Call("gcommit", 0, <<>>)>>

SendReset(f) == <<Call(ResetOp(f), 0, <<>>)>>

ArmCalls(f) ==
  LET id == SymCalls("b", IdentityA)
      some == SubSeq(id, 1, 3)
      rest == SubSeq(id, 4, 8)
  IN {id \o SendWorld(Arena) \o SendReset(f) \o SendUnarmed(f) \o SendUnarmed(f),
      SendReset(f) \o id \o SendUnarmed(f),
      some \o SendReset(f) \o rest \o SendUnarmed(f),
      id \o SendUnarmed(f) \o SendReset(f) \o SendUnarmed(f),
      SendUnarmed(f) \o id \o SendReset(f) \o SendUnarmed(f)}

ArmScripts == UNION {{By("ip1", s) : s \in ArmCalls(f)} : f \in Fields}

InitArm ==
  /\ InitCommon
  /\ variant = "strict"
  /\ now = 0
  /\ script \in ArmScripts
  /\ pc = 1

NextArm == \E c \in {"ip1"} : PlayOf(c) \/ Store(c)

SpecArm == InitArm /\ [][NextArm]_vars

\* the calls of script before call i that are a valid /b/:k
IdentitySent(i) == {x \in 1..(i - 1) : script[x].op = "b" /\ script[x].k \in 0..63}

\* call i was made with the identity buffer at 8 symbols
WithIdentity(i) == Cardinality(IdentitySent(i)) >= 8

\* the calls of op among the calls from..to of script
CallsOf(op, from, to) == {x \in from..to : script[x].op = op}

(* C27: for each field, (1) the first commit of the field in the life of a
   session is answered ok only if the client issued the field's reset with the
   identity buffer at 8 symbols and afterwards an append of the field that was
   accepted; (2) an append of a field whose reset the client has never issued,
   or that follows the field's commit answered ok with no reset in between,
   is answered noreset and leaves the buffer unchanged. *)
C27_ResetAppendCommit ==
  [][\A f \in Fields :
       /\ (/\ script # <<>>
           /\ "ip1" \in DOMAIN pending
           /\ reply' = R("ip1", CommitOp(f), "ok")
           /\ CallsOf(CommitOp(f), 1, pc - 2) = {})
            => \E r \in CallsOf(ResetOp(f), 1, pc - 2) :
                 /\ WithIdentity(r)
                 /\ CallsOf(SymOp(f), r + 1, pc - 2) # {}
                 /\ appended["ip1"][f] # <<>>
       /\ (/\ script # <<>>
           /\ pc <= Len(script)
           /\ pc' = pc + 1
           /\ script[pc].op = SymOp(f)
           /\ \/ CallsOf(ResetOp(f), 1, pc - 1) = {}
              \/ pc > 1 /\ reply = R("ip1", CommitOp(f), "ok"))
            => /\ reply' = R("ip1", SymOp(f), "noreset")
               /\ "ip1" \in DOMAIN SESSIONS
               /\ SESSIONS'["ip1"][BufOf(f)] = SESSIONS["ip1"][BufOf(f)]]_vars

-----------------------------------------------------------------------------
(* SpecSweep: two clients of the strict variant, each with its identity and a
   time it resets and writes, the clock and the sweep *)

SweepTickMs == 30000   \* granularity of the clock in runs with two sessions

MaxSweepTicks == 5     \* clock ticks of a run with two sessions

SweepInputs(c) ==
  [fp |-> {IF c = "ip1" THEN IdentityA ELSE IdentityB}, time |-> {<<"B">>}]

\* the second client resets and writes its time and does not commit it
SweepCalls(c, in) ==
  \/ Idle(c) /\ (\E k \in NextSyms(c, "fp", in.fp) : B(c, k)) /\ Free
  \/ Idle(c) /\ TReset(c) /\ Free
  \/ Idle(c) /\ (\E k \in NextSyms(c, "time", in.time) : TSym(c, k)) /\ Free

NextSweep ==
  \/ \E c \in {"ip1"} : TtlCalls(c, SweepInputs(c))
  \/ \E c \in {"ip2"} : SweepCalls(c, SweepInputs(c))
  \/ Tick(SweepTickMs, MaxSweepTicks) /\ Free
  \/ Sweep /\ Free

SpecSweep == Init /\ [][NextSweep]_vars

(* C28: one run of the sweep at time now removes exactly the sessions with
   now - lastSeen > SESSION_TTL_MS; every other session stays in the map with
   its lastSeen, its buffers and its flags unchanged. *)
C28_SweepRemovesExpired ==
  [][lastSweep' # lastSweep =>
       /\ DOMAIN SESSIONS' =
            {k \in DOMAIN SESSIONS : now - SESSIONS[k].lastSeen <= SESSION_TTL_MS}
       /\ \A k \in DOMAIN SESSIONS' : SESSIONS'[k] = SESSIONS[k]]_vars

\* the sweep has just run: the session of ip1, which had committed a time, is
\* gone, and the session of ip2, last touched exactly SESSION_TTL_MS ago, is
\* still there with its identity and a symbol in its time buffer
C28_Witness ==
  /\ lastSweep = now
  /\ reply = NoReply
  /\ KeyA \in DOMAIN tHist
  /\ "ip1" \notin DOMAIN SESSIONS
  /\ "ip2" \in DOMAIN SESSIONS
  /\ now - SESSIONS["ip2"].lastSeen = SESSION_TTL_MS
  /\ SESSIONS["ip2"].fpBuf = IdentityB
  /\ SESSIONS["ip2"].timeBuf = <<"B">>

-----------------------------------------------------------------------------
(* SpecExpire: one client of the strict variant that makes its calls during the
   first MaxCallTicks ticks of the clock and then stays silent; the clock and
   the sweep run on for SESSION_TTL_MS and two more sweeps *)

MaxCallTicks == 2      \* clock ticks during which the client makes calls

\* clock ticks of a run: those of the calls, SESSION_TTL_MS and two more sweeps
MaxExpireTicks == MaxCallTicks + (SESSION_TTL_MS + 2 * SWEEP_MS) \div SWEEP_MS

\* the client may still make a call
Calling == now < SweepTickMs * MaxCallTicks

ExpireCalls(c, in) ==
  \/ Calling /\ Idle(c) /\ (\E k \in NextSyms(c, "fp", in.fp) : B(c, k)) /\ Free
  \/ Calling /\ Idle(c) /\ TReset(c) /\ Free
  \/ Calling /\ Idle(c) /\ (\E k \in NextSyms(c, "time", in.time) : TSym(c, k)) /\ Free
  \/ Calling /\ Idle(c) /\ Sent(c, "time", in.time) /\ TCommit(c) /\ Free
  \/ TCommitDone(c) /\ Free

NextExpire ==
  \/ \E c \in {"ip1"} : ExpireCalls(c, TtlInputs)
  \/ Tick(SweepTickMs, MaxExpireTicks) /\ Free
  \/ Sweep /\ Free

\* the timer of the sweep keeps firing and time advances
SpecExpire ==
  /\ Init
  /\ [][NextExpire]_vars
  /\ WF_vars(Tick(SweepTickMs, MaxExpireTicks) /\ Free)
  /\ WF_vars(Sweep /\ Free)

\* the times a session of SpecExpire can have been touched at
TouchTimes == {i * SweepTickMs : i \in 0..MaxCallTicks}

(* C29: a session whose lastSeen is t and that no request touches again is
   eventually removed from SESSIONS: from every state where the session of a
   client has lastSeen = t, a state follows where the client has no session or
   its session was touched after t. *)
C29_EventuallyRemoved ==
  \A c \in {"ip1"} : \A t \in TouchTimes :
    (c \in DOMAIN SESSIONS /\ SESSIONS[c].lastSeen = t)
      ~> (c \notin DOMAIN SESSIONS \/ SESSIONS[c].lastSeen # t)

\* the client committed a time, went silent, and the sweep that has just run
\* removed its session
C29_Witness ==
  /\ KeyA \in DOMAIN tHist
  /\ ~Calling
  /\ lastSweep = now
  /\ reply = NoReply
  /\ SESSIONS = EmptyMap

-----------------------------------------------------------------------------
(* SpecRestart: one client of the strict variant with all its calls, /start
   included, the clock and the sweep: a session is removed by /start or by the
   sweep, with or without a commit in flight, and the client goes on *)

RestartTickMs == 130000 \* granularity of the clock in runs with /start

MaxRestartTicks == 2    \* clock ticks of a run with /start

RestartInputs ==
  [fp |-> {IdentityA}, name |-> {<<"H">>}, time |-> {<<"B">>},
   beans |-> {<<"D">>}, world |-> {Arena}, bad |-> {}]

NextRestart ==
  \/ \E c \in {"ip1"} : Calls(c, RestartInputs) \/ Store(c)
  \/ Tick(RestartTickMs, MaxRestartTicks) /\ Free
  \/ Sweep /\ Free

SpecRestart == Init /\ [][NextRestart]_vars

CommitOps == {"commit", "ncommit", "tcommit", "gcommit"}

(* C30: as long as the client has no session, or has sent fewer than 8 valid
   /b/:k since its session was created or last removed (by the sweep or by
   /start), every /commit, /ncommit, /tcommit and /gcommit it sends is answered
   noid and nothing is sent to the store; and the session created by the first
   call after a removal holds nothing but what that call wrote: no symbol in
   the name, time and beans buffers, at most the one identity symbol of that
   call, and no Active flag but the one that call set; every buffer of a
   session holds only symbols accepted since the session was created. *)
C30_RestartFromScratch ==
  [][\A c \in {"ip1"} :
       /\ \A op \in CommitOps :
            (/\ Arrives(c, op)
             /\ c \notin DOMAIN SESSIONS \/ Len(appended[c].fp) < 8)
              => /\ reply'.ans = "noid"
                 /\ scores' = scores
                 /\ pending' = pending
       /\ (c \notin DOMAIN SESSIONS /\ c \in DOMAIN SESSIONS')
            => LET s == SESSIONS'[c]
               IN /\ s.nameBuf = <<>> /\ s.timeBuf = <<>> /\ s.beansBuf = <<>>
                  /\ Len(s.fpBuf) <= (IF reply'.op = "b" THEN 1 ELSE 0)
                  /\ \A f \in Fields : s[ActiveOf(f)] => reply'.op = ResetOp(f)
       /\ c \in DOMAIN SESSIONS'
            => LET s == SESSIONS'[c]
                   a == appended'[c]
               IN /\ Len(s.fpBuf) <= Len(a.fp)
                  /\ s.fpBuf = SubSeq(a.fp, 1, Len(s.fpBuf))
                  /\ \A f \in Fields :
                       /\ Len(s[BufOf(f)]) <= Len(a[f])
                       /\ s[BufOf(f)] = SubSeq(a[f], 1, Len(s[BufOf(f)]))]_vars

\* after a record was committed the session was removed; the client has sent
\* three identity symbols to its new session and its /tcommit is answered noid
C30_Witness ==
  /\ KeyA \in DOMAIN tHist
  /\ KeyA \in DOMAIN nHist
  /\ now >= RestartTickMs
  /\ "ip1" \in DOMAIN SESSIONS
  /\ Len(SESSIONS["ip1"].fpBuf) = 3
  /\ SESSIONS["ip1"].timeActive
  /\ reply = R("ip1", "tcommit", "noid")

-----------------------------------------------------------------------------
(* SpecPair: two clients of the beacon variant, each with its handshake, a time
   it resets, writes and commits, and /reset; the clock standing still *)

PairInputs == [fp |-> {0}, t |-> {WordOf(3)}, world |-> {Arena}, keys |-> {1}]

PairCalls(c, in) ==
  \/ Idle(c) /\ BeaconReset(c) /\ Free
  \/ Idle(c) /\ (\E k \in in.fp : BeaconB(c, k)) /\ Free
  \/ Idle(c) /\ (\E q \in in.world : BeaconCommit(c, q)) /\ Free
  \/ Idle(c) /\ BeaconFieldReset(c, "t") /\ Free
  \/ Idle(c) /\ (\E k \in BeaconNext(c, "t", in.t) : BeaconSym(c, "t", k)) /\ Free
  \/ Idle(c) /\ BeaconSent(c, "t", in) /\ BeaconFieldCommit(c, "t") /\ Free

NextPair == \E c \in IPs : PairCalls(c, PairInputs) \/ BeaconStore(c)

SpecPair == InitBeacon /\ [][NextPair]_vars

\* what the claim compares of a session
BeaconEntry(s) == <<s.fpBuf, s.world, s.helloAt, s.nBuf, s.tBuf, s.cBuf>>

(* C31: in the beacon variant no step of a request of client a changes or
   removes the session of another client b: b keeps its entry in SESS with the
   same fpBuf, world, helloAt, nBuf, tBuf and cBuf. *)
C31_OthersUntouched ==
  [][\A a \in IPs : \A b \in IPs \ {a} :
       (reply'.ip = a /\ b \in DOMAIN SESS)
         => /\ b \in DOMAIN SESS'
            /\ BeaconEntry(SESS'[b]) = BeaconEntry(SESS[b])]_vars

-----------------------------------------------------------------------------
\* the columns of a row other than updated_at
Columns == {"display_name", "world_id", "total_ms", "beans"}

\* what a column of row uid holds when the row is inserted without a value for it
DefaultOf(col, uid) ==
  CASE col = "display_name" -> DefaultName(uid)
    [] col = "world_id" -> NULL
    [] col = "total_ms" -> <<>>
    [] col = "beans" -> <<>>

\* table after differs from table before at most in column col of row uid
\* (and its updated_at); a row uid that is new holds defaults elsewhere
OnlyColumn(before, after, uid, col) ==
  /\ DOMAIN after = DOMAIN before \cup {uid}
  /\ \A k \in DOMAIN before \ {uid} : after[k] = before[k]
  /\ \A x \in Columns \ {col} :
       after[uid][x] = (IF uid \in DOMAIN before THEN before[uid][x]
                        ELSE DefaultOf(x, uid))

ColumnOf(op) ==
  CASE op = "tcommit" -> "total_ms" [] op = "gcommit" -> "beans"
    [] op = "commit" -> "world_id" [] op = "ncommit" -> "display_name"

(* C32: with no other request in flight, a commit answered ok leaves the table
   as the request found it but for its own column (and updated_at) of its own
   row K: total_ms for /tcommit, beans for /gcommit, world_id for /commit, and,
   when no other row had the committed name, display_name for /ncommit; a row
   K that did not exist is inserted with defaults in the other columns. *)
C32_OnlyOwnField ==
  [][\A c \in IPs : \A op \in CommitOps :
       ( /\ variant = "strict"
         /\ DOMAIN pending = {c}
         /\ pending[c].op = op
         /\ reply' = R(c, op, "ok")
         /\ op = "ncommit" =>
              NamedLike(pending[c].db, pending[c].name) \subseteq {pending[c].uid} )
       => OnlyColumn(pending[c].db, scores', pending[c].uid, ColumnOf(op))]_vars

\* the second client's row is named Champ and holds 5000 and beans; the first
\* client, whose row holds a time of its own, has just committed the name Hero
C32_Witness ==
  /\ reply = R("ip1", "ncommit", "ok")
  /\ DOMAIN scores = {KeyA, KeyB}
  /\ scores[KeyB].display_name = Champ
  /\ scores[KeyB].total_ms = Num(5000)
  /\ scores[KeyB].beans = Num(3)
  /\ scores[KeyA].display_name = Hero
  /\ scores[KeyA].total_ms = Num(3000)
  /\ scores[KeyA].world_id = Arena

-----------------------------------------------------------------------------
(* The signed-submit variant (src/unnamed/part_000).  POST /api/submit runs
   BEGIN, a SELECT of the row, an upsert and COMMIT on one connection.  The
   code sets no isolation level and takes no lock in the SELECT, so the
   transaction runs at the level of the server, READ COMMITTED by default: the
   SELECT sees the rows committed so far, the upsert waits for a transaction
   that has written the same key and then writes over what that one committed.
   A key of pending is one request; total_ms is a machine integer here. *)

MaxSubmits == 3   \* requests sent in a run of the signed-submit variant

\* the bodies sent: one user, absolute totals of 9000 and 5000, increments
\* of 1000, a body without display_name, and a signature that holds or not
SubmitBodies ==
  [user_id_hash : {KeyA}, display_name : {Hero, <<>>}, world_id : {Arena},
   mode : {"absolute", "increment"}, total_ms : {9000, 5000}, delta_ms : {1000},
   signed : BOOLEAN]

Max0(a, b) == IF a > b THEN a ELSE b

SubmitRow(name, world, total) ==
  [display_name |-> name, world_id |-> world, total_ms |-> total, updated_at |-> now]

SubmitFrame ==
  UNCHANGED <<SESSIONS, SESS, appended, gHist, nHist, hello, now, lastSweep,
              variant, script, failed, board>>

\* POST /api/submit, up to "await pool.connect()"
Submit(c, body) ==
  /\ c \notin DOMAIN pending
  /\ pc < MaxSubmits
  /\ pc' = pc + 1
  /\ IF ~body.signed
       THEN reply' = R(c, "submit", "bad signature") /\ UNCHANGED pending
     ELSE IF body.user_id_hash = <<>> \/ body.display_name = <<>>
       THEN reply' = R(c, "submit", "missing fields") /\ UNCHANGED pending
     ELSE /\ pending' = Put(pending, c,
                           [op |-> "submit", stage |-> 1, body |-> body,
                            display_name |-> Take(body.display_name, 32),
                            newTotal |-> 0])
          /\ reply' = R(c, "submit", "wait")
  /\ UNCHANGED <<scores, tHist>>
  /\ SubmitFrame

\* BEGIN and the SELECT have run: newTotal is computed from the row read
SubmitSelect(c) ==
  /\ InFlight(c, "submit", 1)
  /\ LET b == pending[c].body
         base == IF b.user_id_hash \in DOMAIN scores
                   THEN scores[b.user_id_hash].total_ms ELSE 0
         newTotal == IF b.mode = "increment" THEN base + Max0(0, b.delta_ms)
                     ELSE Max0(base, Max0(0, b.total_ms))
     IN pending' = [pending EXCEPT ![c] = [@ EXCEPT !.stage = 2, !.newTotal = newTotal]]
  /\ reply' = R(c, "submit", "wait")
  /\ UNCHANGED <<scores, tHist, pc>>
  /\ SubmitFrame

\* the requests whose transaction has written row uid and not yet committed
Writers(uid) ==
  {x \in DOMAIN pending : /\ pending[x].op = "submit" /\ pending[x].stage = 3
                          /\ pending[x].body.user_id_hash = uid}

\* the upsert has run: it waited for any other writer of the row
SubmitUpsert(c) ==
  /\ InFlight(c, "submit", 2)
  /\ Writers(pending[c].body.user_id_hash) = {}
  /\ pending' = [pending EXCEPT ![c] = [@ EXCEPT !.stage = 3]]
  /\ reply' = R(c, "submit", "wait")
  /\ UNCHANGED <<scores, tHist, pc>>
  /\ SubmitFrame

\* INSERT ... ON CONFLICT (user_id_hash) DO UPDATE SET display_name, world_id,
\* total_ms = EXCLUDED.total_ms
SubmitWrite(sc, p) ==
  Put(sc, p.body.user_id_hash, SubmitRow(p.display_name, p.body.world_id, p.newTotal))

\* COMMIT has run: the row is visible and ok is answered with newTotal
SubmitCommit(c) ==
  /\ InFlight(c, "submit", 3)
  /\ scores' = SubmitWrite(scores, pending[c])
  /\ tHist' = Logged(tHist, pending[c].body.user_id_hash,
                      [mode |-> pending[c].body.mode,
                       total_ms |-> pending[c].body.total_ms])
  /\ pending' = Drop(pending, {c})
  /\ reply' = R(c, "submit", "ok")
  /\ UNCHANGED pc
  /\ SubmitFrame

\* a query fails: ROLLBACK, "db error" is answered
SubmitFail(c) ==
  /\ c \in DOMAIN pending
  /\ pending[c].op = "submit"
  /\ pending' = Drop(pending, {c})
  /\ reply' = R(c, "submit", "db error")
  /\ UNCHANGED <<scores, tHist, pc>>
  /\ SubmitFrame

(* SpecSubmit: two requests at a time for the same user, MaxSubmits in all *)

InitSubmit ==
  /\ InitCommon
  /\ variant = "part_000"
  /\ now = 0
  /\ script = <<>>
  /\ pc = 0

NextSubmit ==
  \E c \in IPs :
    \/ \E body \in SubmitBodies : Submit(c, body)
    \/ SubmitSelect(c)
    \/ SubmitUpsert(c)
    \/ SubmitCommit(c)
    \/ SubmitFail(c)

SpecSubmit == InitSubmit /\ [][NextSubmit]_vars

\* every submission committed or in flight is in absolute mode
AbsoluteOnly ==
  /\ \A x \in DOMAIN pending : pending[x].body.mode = "absolute"
  /\ \A u \in DOMAIN tHist : \A x \in tHist[u].all : x.mode = "absolute"

(* C33: in the signed-submit variant, with submissions in absolute mode, the
   total_ms stored for a user never decreases, however concurrent POST
   /api/submit requests for that user interleave; and once an absolute submission of 9000 and one of 5000 have
   both been answered ok and nothing is in flight, the total_ms stored is at
   least 9000. *)
C33_TotalNeverDecreases ==
  [][/\ AbsoluteOnly =>
          \A k \in DOMAIN scores :
            k \in DOMAIN scores' /\ scores'[k].total_ms >= scores[k].total_ms
     /\ ( /\ pending' = EmptyMap
          /\ KeyA \in DOMAIN tHist'
          /\ [mode |-> "absolute", total_ms |-> 9000] \in tHist'[KeyA].all
          /\ [mode |-> "absolute", total_ms |-> 5000] \in tHist'[KeyA].all )
        => scores'[KeyA].total_ms >= 9000]_vars

-----------------------------------------------------------------------------
(* SpecActive001: one client of part_001 that sends its identity, its world,
   names and times, with /reset and the fast path /tfull *)

\* GET /reset: buffers, flags and the active key are cleared, the last
\* committed values are kept
Reset001(c) ==
  Answer001(c, "reset",
            [ensureSess001(c) EXCEPT !.fpBuf = <<>>, !.nameBuf = <<>>,
                                     !.timeBuf = <<>>, !.beansBuf = <<>>,
                                     !.timeArmed = FALSE, !.beansArmed = FALSE,
                                     !.activeUserIdHash = <<>>], "ok")

\* GET /tfull/:sym, up to the await
TFull001(c, sym) ==
  LET s == ensureSess001(c)
      total_ms == decode64ToNumber(sym, 32)
  IN IF s.activeUserIdHash = <<>> THEN Answer001(c, "tfull", s, "noname")
     ELSE IF total_ms = Null THEN Answer001(c, "tfull", s, "bad")
     ELSE /\ variant = "part_001"
          /\ SESSIONS' = Put(SESSIONS, c, s)
          /\ pending' = Put(pending, c,
                            Req("tfull", s.activeUserIdHash, <<>>, total_ms, NULL, s))
          /\ reply' = R(c, "tfull", "wait")
          /\ UNCHANGED <<scores, tHist>>
          /\ OtherFrame

\* /tfull: the upsert has run; the value is kept as last committed, ok is sent
TFullDone001(c) ==
  /\ variant = "part_001"
  /\ InFlight(c, "tfull", 1)
  /\ scores' = UpsertTotal001(scores, pending[c].uid, pending[c].val)
  /\ SESSIONS' = IF pending[c].detached \/ c \notin DOMAIN SESSIONS THEN SESSIONS
                 ELSE [SESSIONS EXCEPT ![c] = [@ EXCEPT
                         !.lastCommittedMs = pending[c].val]]
  /\ pending' = Drop(pending, {c})
  /\ reply' = R(c, "tfull", "ok")
  /\ tHist' = Logged(tHist, pending[c].uid, pending[c].val)
  /\ OtherFrame

ActiveInputs ==
  [fp |-> {IdentityA}, name |-> {<<"H">>, <<"C">>}, time |-> {<<"B">>},
   world |-> {Arena}]

ActiveCalls001(c, in) ==
  \/ Calls001(c, in)
  \/ Idle001(c) /\ Reset001(c) /\ Free
  \/ Idle001(c) /\ (\E w \in in.time : TFull001(c, w)) /\ Free
  \/ TFullDone001(c) /\ Free

InitActive001 ==
  /\ InitCommon
  /\ variant = "part_001"
  /\ now = 0
  /\ script = <<>>
  /\ pc = 0

NextActive001 == \E c \in {"ip1"} : ActiveCalls001(c, ActiveInputs)

SpecActive001 == InitActive001 /\ [][NextActive001]_vars

(* C34: in part_001, whenever /tcommit is answered ok, or is answered noop
   with an armed, non-empty time buffer whose decoded value equals the
   session's lastCommittedMs, the row stored under the session's
   activeUserIdHash holds that decoded value as total_ms. *)
C34_ActiveRowHoldsValue ==
  [][\A c \in {"ip1"} :
       /\ (c \in DOMAIN pending /\ reply' = R(c, "tcommit", "ok"))
            => LET K == SESSIONS'[c].activeUserIdHash
               IN K \in DOMAIN scores' /\ scores'[K].total_ms = pending[c].val
       /\ ( /\ reply' = R(c, "tcommit", "noop")
            /\ c \in DOMAIN SESSIONS
            /\ SESSIONS[c].timeArmed
            /\ SESSIONS[c].timeBuf # <<>>
            /\ decode64ToNumber(SESSIONS[c].timeBuf, 32) = SESSIONS[c].lastCommittedMs )
            => LET K == SESSIONS[c].activeUserIdHash
               IN /\ K \in DOMAIN scores'
                  /\ scores'[K].total_ms = SESSIONS[c].lastCommittedMs]_vars

-----------------------------------------------------------------------------
(* SpecKey: one client of the strict variant that sends nine identity symbols
   to each of its sessions, one more than the buffer takes, commits its four
   fields, and starts over with /start under another identity; the clock
   standing still *)

IdentityLongA == IdentityA \o <<"B">>

IdentityLongB == IdentityB \o <<"A">>

\* the record under the first identity is complete
RecordDone ==
  /\ KeyA \in DOMAIN nHist \cap DOMAIN tHist \cap DOMAIN gHist \cap DOMAIN scores
  /\ scores[KeyA].world_id = Arena

\* the client changes its identity once its first record is complete
KeyInputs ==
  [fp |-> IF RecordDone THEN {IdentityLongB} ELSE {IdentityLongA},
   name |-> {<<"H">>}, time |-> {<<"B">>}, beans |-> {<<"D">>},
   world |-> {Arena}, bad |-> {}]

NextKey == \E c \in {"ip1"} : Calls(c, KeyInputs) \/ Store(c)

SpecKey == Init /\ [][NextKey]_vars

\* "fp_" followed by 8 symbols of the alphabet
KeyForm(k) ==
  /\ Len(k) = Len(FpPrefix) + 8
  /\ SubSeq(k, 1, Len(FpPrefix)) = FpPrefix
  /\ \A i \in Len(FpPrefix) + 1..Len(k) : \E j \in 1..Len(ALPHABET) : k[i] = ALPHABET[j]

(* C35: once the fpBuf of a session holds 8 symbols it does not change as long
   as the session stays in SESSIONS; the key a /commit, /ncommit, /tcommit or
   /gcommit takes to the store is "fp_" followed by the first 8 identity
   symbols accepted in the session it arrives in; a step of the store adds or
   changes no row but the one under the key of the request in flight; and every
   key of scores is "fp_" followed by 8 symbols of the alphabet. *)
C35_OneKeyPerSession ==
  [][\A c \in {"ip1"} :
       /\ (/\ c \in DOMAIN SESSIONS
           /\ Len(SESSIONS[c].fpBuf) = 8
           /\ c \in DOMAIN SESSIONS')
            => SESSIONS'[c].fpBuf = SESSIONS[c].fpBuf
       /\ \A op \in CommitOps :
            (Arrives(c, op) /\ c \in DOMAIN pending')
              => /\ Len(appended[c].fp) >= 8
                 /\ pending'[c].uid = FpPrefix \o SubSeq(appended[c].fp, 1, 8)
       /\ \A k \in DOMAIN scores' :
            /\ KeyForm(k)
            /\ (k \notin DOMAIN scores \/ scores'[k] # scores[k])
                 => c \in DOMAIN pending /\ k = pending[c].uid]_vars

\* the client has committed a time under one identity and, in a later session
\* that was sent nine symbols of the other identity, a time under that one
C35_Witness ==
  /\ KeyA \in DOMAIN tHist
  /\ KeyB \in DOMAIN tHist
  /\ "ip1" \in DOMAIN SESSIONS
  /\ appended["ip1"].fp = IdentityLongB
  /\ SESSIONS["ip1"].fpBuf = IdentityB
  /\ reply = R("ip1", "tcommit", "ok")

-----------------------------------------------------------------------------
(* SpecDefault: two clients of the strict variant, one request at a time: the
   second gets a row with the default name, the first commits a name, which may
   be the default name of the second, and the second commits again *)

\* what the second client sends first: a time, beans or a world, with no name
DefaultRows == {SendTime(5000), SendBeans(3), SendWorld(Arena)}

\* the names the first client commits
DefaultNames == {Hero, DefaultName(KeyB)}

DefaultScripts ==
  {By("ip2", SymCalls("b", IdentityB) \o first)
     \o By("ip1", SymCalls("b", IdentityA) \o SendName(name))
     \o By("ip2", again) :
       first \in DefaultRows, name \in DefaultNames, again \in DefaultRows}

InitDefault ==
  /\ InitCommon
  /\ variant = "strict"
  /\ now = 0
  /\ script \in DefaultScripts
  /\ pc = 1

SpecDefault == InitDefault /\ [][NextMerge]_vars

(* C36: in every state with no request in flight, no two rows of scores have the
   same display_name. *)
C36_NamesUnique ==
  pending = EmptyMap
    => \A k1 \in DOMAIN scores : \A k2 \in DOMAIN scores :
         scores[k1].display_name = scores[k2].display_name => k1 = k2

-----------------------------------------------------------------------------
(* The rendering of a time (src/server.js 218-226) and its parser
   (src/unnamed/part_003 54-66).  Numbers are base-64 numerals: a time may be
   above 2^31.  The code computes with doubles, exact below 2^53. *)

RECURSIVE AddRev(_, _, _)
\* digits least significant first: r + q + carry
AddRev(r, q, carry) ==
  IF r = <<>> /\ q = <<>> THEN (IF carry = 0 THEN <<>> ELSE <<carry>>)
  ELSE LET x == (IF r = <<>> THEN 0 ELSE r[1]) + (IF q = <<>> THEN 0 ELSE q[1]) + carry
       IN <<x % 64>> \o AddRev(IF r = <<>> THEN <<>> ELSE Tail(r),
                               IF q = <<>> THEN <<>> ELSE Tail(q), x \div 64)

\* a + b
NumAdd(a, b) == Canon(Rev(AddRev(Rev(a), Rev(b), 0)))

RECURSIVE SubRev(_, _, _)
\* digits least significant first: r - q - borrow, for r >= q
SubRev(r, q, borrow) ==
  IF r = <<>> THEN <<>>
  ELSE LET x == r[1] - (IF q = <<>> THEN 0 ELSE q[1]) - borrow
       IN <<(x + 64) % 64>> \o SubRev(Tail(r), IF q = <<>> THEN <<>> ELSE Tail(q),
                                      IF x < 0 THEN 1 ELSE 0)

\* a - b, for a >= b
NumSub(a, b) == Canon(Rev(SubRev(Rev(a), Rev(b), 0)))

RECURSIVE DivSmall(_, _)
\* long division of the numeral d by the machine integer m: quotient digits and
\* remainder
DivSmall(d, m) ==
  IF d = <<>> THEN [q |-> <<>>, r |-> 0]
  ELSE LET p == DivSmall(SubSeq(d, 1, Len(d) - 1), m)
           x == p.r * 64 + d[Len(d)]
       IN [q |-> Append(p.q, x \div m), r |-> x % m]

\* Math.floor(a / m), for a machine integer 0 < m <= 3600000
NumDiv(a, m) == Canon(DivSmall(a, m).q)

\* Math.min(a, b)
NumMin(a, b) == IF NumLess(b, a) THEN b ELSE a

RECURSIVE DecimalOf(_)
\* the decimal digits of a numeral, none for 0
DecimalOf(a) ==
  IF a = <<>> THEN <<>>
  ELSE Append(DecimalOf(NumDiv(a, 10)), DecimalDigits[DivSmall(a, 10).r + 1])

\* String(n), for an integer n >= 0 below 1e21
NumString(a) == IF a = <<>> THEN <<"0">> ELSE DecimalOf(a)

\* faulty variant: the string is cut to its last w characters
pad_Truncates(n, w) ==
  LET str == NumString(n)
  IN IF Len(str) >= w THEN SubSeq(str, Len(str) - w + 1, Len(str))
     ELSE [i \in 1..(w - Len(str)) |-> "0"] \o str

\* pad = (n,w) => { n = String(n); return n.length >= w ? n : "0".repeat(w - n.length) + n }
pad(n, w) ==
  LET str == NumString(n)
  IN IF Len(str) >= w THEN str
     ELSE [i \in 1..(w - Len(str)) |-> "0"] \o str

\* msToStr of the strict variant, for an integer totalMs >= 0
msToStr(totalMs) ==
  LET h == NumDiv(totalMs, 3600000)
      ms1 == NumSub(totalMs, NumMul(h, 3600000))
      m == NumDiv(ms1, 60000)
      ms2 == NumSub(ms1, NumMul(m, 60000))
      s == NumDiv(ms2, 1000)
      ms3 == NumSub(ms2, NumMul(s, 1000))
  IN pad(h, 2) \o <<":">> \o pad(m, 2) \o <<":">> \o pad(s, 2) \o <<":">> \o pad(ms3, 3)

RECURSIVE Split(_, _)
\* str.split(sep), for a separator of one character
Split(str, sep) ==
  IF \A i \in 1..Len(str) : str[i] # sep THEN <<str>>
  ELSE LET i == CHOOSE x \in 1..Len(str) :
                  str[x] = sep /\ \A j \in 1..(x - 1) : str[j] # sep
       IN <<SubSeq(str, 1, i - 1)>> \o Split(SubSeq(str, i + 1, Len(str)), sep)

\* 2^53 - 1, the largest integer below which every integer is a double
MaxSafe == <<31, 63, 63, 63, 63, 63, 63, 63, 63>>

\* the decimal digits str starts with
DigitPrefix(str) ==
  LET n == CHOOSE i \in 0..Len(str) :
             /\ \A j \in 1..i : DigitValue(str[j]) >= 0
             /\ i < Len(str) => DigitValue(str[i + 1]) < 0
  IN SubSeq(str, 1, n)

RECURSIVE DecFrom(_, _)
\* the number the decimal digits str denote, from value v; a number above
\* 2^53 - 1 is no exact double and has no value here
DecFrom(str, v) ==
  IF str = <<>> THEN v
  ELSE LET w == Canon(Rev(MulSmallRev(Rev(v), 10, DigitValue(str[1]))))
       IN IF NumLess(MaxSafe, w) THEN Null ELSE DecFrom(Tail(str), w)

\* the number a string of decimal digits denotes
DecValue(str) == DecFrom(str, <<>>)

\* Math.max(0, parseInt(p, 10) || 0): the digits p starts with; a string that starts
\* with no digit gives NaN or a negative number, hence 0 (strings that start with
\* white space or "+" are not modelled)
parseInt10(p) == DecValue(DigitPrefix(p))

\* msFromHMSms of part_003; no value where a field has none
msFromHMSms(hmsms) ==
  IF hmsms = <<>> THEN <<>>
  ELSE LET parts == Split(hmsms, ":")
       IN IF Len(parts) # 4 THEN <<>>
          ELSE LET HH == parseInt10(parts[1])
                   MM == parseInt10(parts[2])
                   SS == parseInt10(parts[3])
                   MS == parseInt10(parts[4])
                   ms == NumAdd(NumAdd(NumMul(HH, 3600000),
                                       NumMul(NumMin(MM, Num(59)), 60000)),
                                NumAdd(NumMul(NumMin(SS, Num(59)), 1000),
                                       NumMin(MS, Num(999))))
               IN IF Null \in {HH, MM, SS, MS} THEN Null ELSE NumMin(ms, CAP_1E13)

(* SpecRender: a row of the strict variant holds a time; the time is rendered
   with msToStr, and the string is handed to msFromHMSms *)

\* whole hours of the times rendered: up to 99 (two digits), from 100 on, and
\* about 1e12 and 1e13 ms
RenderHours == {0, 1, 99, 100, 277777, 2777777}

\* what the times rendered have above their whole hours, in ms
RenderRests == {0, 1, 999, 1000, 59999, 60000, 3599999}

RenderTimes ==
  {NumAdd(NumMul(Num(h), 3600000), Num(r)) : h \in RenderHours, r \in RenderRests}
    \cup {MAX_MS, CAP_1E13, NumSucc(CAP_1E13), MaxSafe}

\* the time of the row
RenderedMs == scores[KeyA].total_ms

\* the strict variant renders the time of the row
Render(c) ==
  /\ variant = "strict"
  /\ reply' = R(c, "msToStr", msToStr(RenderedMs))
  /\ UNCHANGED <<SESSIONS, SESS, scores, now, lastSweep, pending, appended,
                 tHist, gHist, nHist, hello, variant, failed, board>>

\* part_003 parses the string that was rendered
Parse(c) ==
  /\ reply.op = "msToStr"
  /\ reply' = R(c, "msFromHMSms", msFromHMSms(reply.ans))
  /\ UNCHANGED <<SESSIONS, SESS, scores, now, lastSweep, pending, appended,
                 tHist, gHist, nHist, hello, variant, failed, board>>

InitRender ==
  /\ SESSIONS = EmptyMap
  /\ SESS = EmptyMap
  /\ lastSweep = 0
  /\ pending = EmptyMap
  /\ reply = NoReply
  /\ appended = [x \in IPs |-> NoAppended]
  /\ tHist = EmptyMap
  /\ gHist = EmptyMap
  /\ nHist = EmptyMap
  /\ hello = [x \in IPs |-> 0]
  /\ failed = EmptyMap
  /\ board = NoBoard
  /\ variant = "strict"
  /\ now = 0
  /\ script = <<>>
  /\ pc = 0
  /\ \E t \in RenderTimes : scores = Put(EmptyMap, KeyA, Row(Hero, Arena, t, Num(0)))

NextRender == \E c \in {"ip1"} : (Render(c) /\ Free) \/ (Parse(c) /\ Free)

SpecRender == InitRender /\ [][NextRender]_vars

\* str is made of decimal digits
AllDigits(str) == \A i \in 1..Len(str) : DigitValue(str[i]) >= 0

(* C37: the string msToStr renders for an integer totalMs >= 0 is h:m:s:ms, four
   fields of decimal digits with m <= 59, s <= 59, ms <= 999 and
   h * 3600000 + m * 60000 + s * 1000 + ms = totalMs; m and s have 2 digits, ms
   has 3, and h has 2 digits or more and no leading zero beyond two digits;
   msFromHMSms applied to that string returns totalMs whenever totalMs <= 1e13. *)
C37_RenderedAndParsedBack ==
  /\ reply.op = "msToStr"
       => LET parts == Split(reply.ans, ":")
          IN /\ Len(parts) = 4
             /\ \A i \in 1..4 : AllDigits(parts[i])
             /\ Len(parts[1]) >= 2
             /\ Len(parts[1]) > 2 => parts[1][1] # "0"
             /\ Len(parts[2]) = 2
             /\ Len(parts[3]) = 2
             /\ Len(parts[4]) = 3
             /\ LET h == DecValue(parts[1])
                    m == DecValue(parts[2])
                    s == DecValue(parts[3])
                    ms == DecValue(parts[4])
                IN /\ Null \notin {h, m, s, ms}
                   /\ NumLeq(m, Num(59))
                   /\ NumLeq(s, Num(59))
                   /\ NumLeq(ms, Num(999))
                   /\ NumAdd(NumAdd(NumMul(h, 3600000), NumMul(m, 60000)),
                             NumAdd(NumMul(s, 1000), ms)) = RenderedMs
  /\ (reply.op = "msFromHMSms" /\ NumLeq(RenderedMs, CAP_1E13))
       => reply.ans = RenderedMs

\* a time of 277777 hours, 59 minutes, 59 seconds and 999 ms was rendered and
\* parsed back
C37_Witness ==
  /\ RenderedMs = NumAdd(NumMul(Num(277777), 3600000), Num(3599999))
  /\ reply = R("ip1", "msFromHMSms", RenderedMs)

=============================================================================
